---------------------------- MODULE Spec2Model ----------------------------
(***************************************************************************)
(* A model of the OBD-II telemetry demo: the mock snapshot generator       *)
(* mock_obd_data(), the timed generator mock_obd_stream() and the global   *)
(* random source they draw from (src/mock_obd.py, src/app.py).             *)
(*                                                                         *)
(* Units.  Time is counted in clock ticks, TicksPerSec of them to a        *)
(* second.  A float that the code rounds to two decimals is held as an     *)
(* integer number of hundredths (12.5 is 1250), `distance', rounded to one *)
(* decimal, as a number of tenths.                                         *)
(*                                                                         *)
(* The clock.  `now' never runs backwards.  Every read of the clock in the *)
(* code (time.time(), datetime.now()) is a read of its own: two reads in   *)
(* one function may fall into different ticks however little time lies     *)
(* between them, so a later read may return a later tick.                  *)
(***************************************************************************)
EXTENDS Integers, Sequences, FiniteSets, TLC

VARIABLES
    rng,        \* state of the module-global random.Random instance
    seededBy,   \* the seed of a random.seed(n) no draw has followed yet, else NoSeed
    now,        \* the wall clock, in ticks
    catalog,    \* the DTC catalog mock_obd_data draws from (its local dtc_pool)
    out,        \* what the last mock_obd_data() call returned, NoResult before any
    err,        \* the exception the last operation ended with, "none" if it returned
    gen,        \* the generator object the consumer holds, NoStream if none
    made,       \* how many times mock_obd_stream() has been called
    heap,       \* the objects allocated so far; an object's reference is its index
    held,       \* references to the snapshots a caller has been given and kept
    fresh,      \* per kept snapshot: its value on return, and the catalog drawn from
    mutated,    \* which kept snapshots the caller has written to since
    environ,    \* os.environ after load_dotenv(): the value of each variable, or None
    INFLUXDB_BUCKET, \* the module global utils.py sets when it is imported
    db,         \* the DB object last constructed, NoDB before
    loop,       \* collect_and_store_obd_data: where it is, and its reading_count
    reading,    \* obd_reading, the snapshot the loop of collect_and_store_obd_data holds
    written,    \* the points the last store_to_db() call handed to db.store_data
    response,   \* what the last request to the web API returned, and from where
    answer,     \* what the last operation of the LLM object returned
    text,       \* the JSON text json.dumps made of the last snapshot printed
    back,       \* what json.loads made of that text
    stats,      \* what the last call of DB.get_field_stats returned
    console,    \* where the OBD console program is, and its adapter
    dash        \* what the terminal dashboard has drawn and shown

\* The objects of the interpreter and who holds them.
heapVars == <<heap, held, fresh, mutated>>

\* The configuration and the storage connection.
dbVars == <<environ, INFLUXDB_BUCKET, db>>

\* The collector.
collectVars == <<loop, reading, written>>

\* The state beyond the generator, its stream and the random source.
\* The consumers at the edge: the web API, the LLM layer, the JSON printer.
\* The statistics of a field, the console program and the dashboard.
moreVars == <<stats, console, dash>>

edgeVars == <<response, answer, text, back, moreVars>>

beyond == <<heapVars, dbVars, collectVars, edgeVars>>

vars == <<rng, seededBy, now, catalog, out, err, gen, made, beyond>>

---------------------------------------------------------------------------
(* Bounds of the model *)

\* The random source has RngMod states.
RngMod == 64
\* random() returns a fraction k / RandBase^2, 0 <= k < RandBase^2.
RandBase == 1024
\* Clock ticks to a second.
TicksPerSec == 2
\* The clock stops at MaxTime ticks.
MaxTime == 5
\* A read of the clock may come up to MaxLag ticks after the one before it.
MaxLag == 1
\* time.sleep(d) returns up to MaxJitter ticks late.
MaxJitter == 1
\* mock_obd_stream() is called at most MaxStreams times.
MaxStreams == 2
\* A stream is advanced until it has yielded MaxYields snapshots.
MaxYields == 4

\* A caller keeps at most MaxHeld snapshots.
MaxHeld == 2

\* One store_to_db() call makes at most MaxWrites writes.
MaxWrites == 4

\* A float has Precision significant bits.
Precision == 4

\* A query of get_field_stats yields at most MaxValues values.
MaxValues == 3

\* the metrics refreshes followed after one chart refresh
MaxShown == 3

\* the chart refreshes followed
MaxRefreshes == 3

\* the leading points of the chart that are kept
MaxChart == 2

\* the re-checks of the adapter that are counted
MaxPolls == 3

NoSeed == 0 - 1
Seeds == {73, 7}
\* duration_seconds and interval arguments, in ticks
Durations == {0, 1, 3}
Intervals == {-1, 0, 1, 2}

---------------------------------------------------------------------------
(* The random source: random.seed, random.random and what the code builds  *)
(* on them.  The generator is a deterministic automaton: seeding fixes its *)
(* state and every draw steps it.                                          *)

RandDen == RandBase * RandBase

SeedState(n) == n % RngMod

RngStep(s) == (17 * s + 41) % RngMod

RECURSIVE RngStepN(_, _)
RngStepN(s, k) == IF k = 0 THEN s ELSE RngStepN(RngStep(s), k - 1)

\* The numerator of the fraction random() returns on reaching state s; it
\* ranges from 0 to RandDen - 1, the largest value random() can return.
Raw(s) == (s * (RandDen - 1)) \div (RngMod - 1)

\* Quotient and remainder of (w * r) / RandDen, by long multiplication in base
\* RandBase so that no intermediate product leaves 32 bits.
Scale(w, r) ==
    LET w1 == w \div RandBase
        w0 == w % RandBase
        r1 == r \div RandBase
        r0 == r % RandBase
        t  == (w1 * r0 + w0 * r1) * RandBase + w0 * r0
    IN  [q |-> w1 * r1 + t \div RandDen, rem |-> t % RandDen]

\* random._randbelow(n): an integer of 0 .. n-1
RandBelow(n, s) == Scale(n, Raw(s)).q

\* randint with its upper end one too far
RandIntOffByOne(lo, hi, s) == lo + RandBelow(hi - lo + 2, s)

\* random.randint(lo, hi) = lo + _randbelow(hi - lo + 1)
RandInt(lo, hi, s) == lo + RandBelow(hi - lo + 1, s)

\* random.choice(seq) = seq[_randbelow(len(seq))]
Choice(seq, s) == seq[RandBelow(Len(seq), s) + 1]

\* round(lo + (hi - lo) * random(), digits) in units of 10^-digits: lo and hi
\* are given in those units; ties go to the even neighbour as in Python 3.
UniformRounded(lo, hi, s) ==
    LET sc   == Scale(hi - lo, Raw(s))
        base == lo + sc.q
    IN  IF 2 * sc.rem > RandDen THEN base + 1
        ELSE IF 2 * sc.rem < RandDen THEN base
        ELSE IF base % 2 = 0 THEN base ELSE base + 1

\* The loop of random.sample for a population of at most 21 items: the i-th
\* pick is pool[j], j = _randbelow(n - i), and the last unpicked item moves
\* into the hole.  Returns the picks and the state of the random source.
RECURSIVE SampleLoop(_, _, _, _, _)
SampleLoop(pool, i, k, s, result) ==
    IF i = k THEN [items |-> result, rng |-> s]
    ELSE LET n  == Len(pool)
             s1 == RngStep(s)
             j  == RandBelow(n - i, s1) + 1
         IN  SampleLoop([pool EXCEPT ![j] = pool[n - i]], i + 1, k, s1,
                        Append(result, pool[j]))

\* k independent picks, as random.choices would make
SampleWithReplacement(population, k, s) ==
    IF k > Len(population)
    THEN [status |-> "ValueError", items |-> <<>>, rng |-> s]
    ELSE [status |-> "ok",
          items  |-> [i \in 1..k |->
                        population[RandBelow(Len(population), RngStepN(s, i)) + 1]],
          rng    |-> RngStepN(s, k)]

\* random.sample(population, k): ValueError when k > len(population)
Sample(population, k, s) ==
    IF k > Len(population)
    THEN [status |-> "ValueError", items |-> <<>>, rng |-> s]
    ELSE LET r == SampleLoop(population, 0, k, s, <<>>)
         IN  [status |-> "ok", items |-> r.items, rng |-> r.rng]

---------------------------------------------------------------------------
(* mock_obd_data *)

dtc_pool == <<
    [code |-> "P0300", description |-> "Random/Multiple Cylinder Misfire Detected"],
    [code |-> "P0420", description |-> "Catalyst System Efficiency Below Threshold"],
    [code |-> "P0171", description |-> "System Too Lean (Bank 1)"],
    [code |-> "P0128",
     description |-> "Coolant Thermostat Temperature Below Regulating Temperature"],
    [code |-> "P0442", description |-> "EVAP System Leak Detected (small leak)"],
    [code |-> "P0455", description |-> "EVAP System Leak Detected (large leak)"],
    [code |-> "P0301", description |-> "Cylinder 1 Misfire Detected"],
    [code |-> "P0401", description |-> "EGR System Flow Insufficient"],
    [code |-> "P0507", description |-> "Idle Control System RPM Higher Than Expected"],
    [code |-> "P0113", description |-> "Intake Air Temperature Sensor Circuit High"] >>

\* int(time.time()): whole seconds
UnixTime(t) == t \div TicksPerSec

\* The fault count drawn from 0..3, so that a fault can come without a code.
DrawDtcsFromZero(pool, s) ==
    LET s1      == RngStep(s)
        has_dtc == Choice(<<TRUE, FALSE, FALSE>>, s1)
        s2      == IF has_dtc THEN RngStep(s1) ELSE s1
        count   == IF has_dtc THEN RandInt(0, 3, s2) ELSE 0
        picked  == IF count > 0 THEN Sample(pool, count, s2)
                   ELSE [status |-> "ok", items |-> <<>>, rng |-> s2]
    IN  [status |-> picked.status, has_dtc |-> has_dtc, dtc_count |-> count,
         active_dtcs |-> picked.items, rng |-> picked.rng]

\* The codes drawn one by one, each from the whole catalog.
DrawDtcsWithChoices(pool, s) ==
    LET s1      == RngStep(s)
        has_dtc == Choice(<<TRUE, FALSE, FALSE>>, s1)
        s2      == IF has_dtc THEN RngStep(s1) ELSE s1
        count   == IF has_dtc THEN RandInt(1, 3, s2) ELSE 0
        picked  == IF count > 0 THEN SampleWithReplacement(pool, count, s2)
                   ELSE [status |-> "ok", items |-> <<>>, rng |-> s2]
    IN  [status |-> picked.status, has_dtc |-> has_dtc, dtc_count |-> count,
         active_dtcs |-> picked.items, rng |-> picked.rng]

\* The fault count drawn from 1..30, more than the catalog holds.
DrawDtcsTooMany(pool, s) ==
    LET s1      == RngStep(s)
        has_dtc == Choice(<<TRUE, FALSE, FALSE>>, s1)
        s2      == IF has_dtc THEN RngStep(s1) ELSE s1
        count   == IF has_dtc THEN RandInt(1, 30, s2) ELSE 0
        picked  == IF count > 0 THEN Sample(pool, count, s2)
                   ELSE [status |-> "ok", items |-> <<>>, rng |-> s2]
    IN  [status |-> picked.status, has_dtc |-> has_dtc, dtc_count |-> count,
         active_dtcs |-> picked.items, rng |-> picked.rng]

\* Lines 45-47: the fault coin, the fault count and the codes drawn.
DrawDtcs(pool, s) ==
    LET s1      == RngStep(s)
        has_dtc == Choice(<<TRUE, FALSE, FALSE>>, s1)
        s2      == IF has_dtc THEN RngStep(s1) ELSE s1
        count   == IF has_dtc THEN RandInt(1, 3, s2) ELSE 0
        picked  == IF count > 0 THEN Sample(pool, count, s2)
                   ELSE [status |-> "ok", items |-> <<>>, rng |-> s2]
    IN  [status |-> picked.status, has_dtc |-> has_dtc, dtc_count |-> count,
         active_dtcs |-> picked.items, rng |-> picked.rng]

\* Lines 50-81: the dict literal mock_data built after the draw d of lines
\* 45-47; its values are drawn in the order the literal lists them, the i-th
\* from the i-th state of the random source after d.
MockData(d) ==
    LET g(i) == RngStepN(d.rng, i)
    IN  IF d.status # "ok"
        THEN [status |-> d.status, data |-> <<>>, rng |-> d.rng]
        ELSE [status |-> "ok",
              rng    |-> g(17),
              data   |-> [
                rpm                 |-> RandInt(700, 3500, g(1)),
                speed               |-> RandInt(0, 120, g(2)),
                throttle_position   |-> UniformRounded(0, 10000, g(3)),
                engine_load         |-> UniformRounded(1000, 9000, g(4)),
                coolant_temp        |-> RandInt(75, 105, g(5)),
                intake_temp         |-> RandInt(20, 60, g(6)),
                oil_temp            |-> RandInt(80, 110, g(7)),
                fuel_level          |-> UniformRounded(1000, 9500, g(8)),
                fuel_pressure       |-> UniformRounded(20000, 40000, g(9)),
                fuel_rate           |-> UniformRounded(50, 1500, g(10)),
                maf                 |-> UniformRounded(200, 2500, g(11)),
                intake_pressure     |-> UniformRounded(3000, 10000, g(12)),
                battery_voltage     |-> UniformRounded(1250, 1450, g(13)),
                ambient_temp        |-> RandInt(15, 35, g(14)),
                barometric_pressure |-> UniformRounded(9500, 10500, g(15)),
                distance            |-> UniformRounded(0, 500000, g(16)),
                runtime             |-> RandInt(0, 10000, g(17)),
                mil_status          |-> d.has_dtc,
                dtc_count           |-> d.dtc_count,
                dtcs                |-> d.active_dtcs ]]

\* Lines 45-81 of mock_obd_data() run from random state s with dtc_pool =
\* pool: everything the snapshot takes from the random source, and the random
\* state left.
Sampled(pool, s) == MockData(DrawDtcs(pool, s))

\* Sampled tabulated once: over dtc_pool cut to its first n codes (n = 10 is
\* the program's own catalog) and over the states of the random source.
SampledTable ==
    [n \in 0..Len(dtc_pool) |->
        [s \in 0..(RngMod - 1) |-> Sampled(SubSeq(dtc_pool, 1, n), s)]]

\* Lines 83-84: the two clock reads, datetime.now() at t1 and time.time() at t2.
Stamp(data, t1, t2) ==
    [k \in DOMAIN data \cup {"timestamp", "unix_timestamp"} |->
        IF k = "timestamp" THEN t1
        ELSE IF k = "unix_timestamp" THEN UnixTime(t2)
        ELSE data[k]]

\* mock_obd_data() run from random state s with dtc_pool = pool, reading the
\* clock at t1 and then at t2.  Returns the outcome, the snapshot and the
\* random state it leaves.  pool is dtc_pool or a prefix of it, so that its
\* length finds Sampled(pool, s) in the table.
MockObdData(pool, s, t1, t2) ==
    LET d == SampledTable[Len(pool)][s]
    IN  IF d.status # "ok" THEN d
        ELSE [status |-> "ok", rng |-> d.rng, data |-> Stamp(d.data, t1, t2)]

\* The Python type of the value under each key of a snapshot, by the
\* expression that makes it in lines 50-85: random.randint, len and int give
\* an int, round(random.uniform(..), n) a float, has_dtc is a bool,
\* isoformat() gives a str and active_dtcs is a list.
KeyType ==
    [rpm                 |-> "int",
     speed               |-> "int",
     throttle_position   |-> "float",
     engine_load         |-> "float",
     coolant_temp        |-> "int",
     intake_temp         |-> "int",
     oil_temp            |-> "int",
     fuel_level          |-> "float",
     fuel_pressure       |-> "float",
     fuel_rate           |-> "float",
     maf                 |-> "float",
     intake_pressure     |-> "float",
     battery_voltage     |-> "float",
     ambient_temp        |-> "int",
     barometric_pressure |-> "float",
     distance            |-> "float",
     runtime             |-> "int",
     mil_status          |-> "bool",
     dtc_count           |-> "int",
     dtcs                |-> "list",
     timestamp           |-> "str",
     unix_timestamp      |-> "int"]

\* The keys of a snapshot that hold a number.
NumericKeys == {k \in DOMAIN KeyType : KeyType[k] \in {"int", "float"}}

\* The keys of a snapshot that do not come from the clock.
SampledKeys ==
    {"rpm", "speed", "throttle_position", "engine_load", "coolant_temp",
     "intake_temp", "oil_temp", "fuel_level", "fuel_pressure", "fuel_rate",
     "maf", "intake_pressure", "battery_voltage", "ambient_temp",
     "barometric_pressure", "distance", "runtime", "mil_status", "dtc_count",
     "dtcs"}

NoResult == [status |-> "none", data |-> <<>>, seed |-> NoSeed, again |-> FALSE]

\* What a call of mock_obd_data leaves in `out': its result, with the seed the
\* random source had just been reset to (NoSeed if it had drawn since) and
\* whether the call before it had been made under the same seed.
Returned(r) ==
    [status |-> r.status, data |-> r.data, seed |-> seededBy,
     again |-> (seededBy # NoSeed /\ out.seed = seededBy)]

\* The exception a result stands for.
Raised(r) == IF r.status = "ok" THEN "none" ELSE r.status

---------------------------------------------------------------------------
(* mock_obd_stream *)

\* The deadline counted from the start of the program, not from t.
EndTimeNotFresh(t, duration_seconds) == duration_seconds

\* The deadline one tick late.
EndTimePadded(t, duration_seconds) == t + duration_seconds + 1

\* Line 101: the deadline of a stream whose body starts to run at time t.
EndTime(t, duration_seconds) == t + duration_seconds

\* The loop condition with <= for <.
LoopConditionInclusive(t, end_time) == t <= end_time

\* Line 103: the loop condition, on the clock value t it reads.
LoopCondition(t, end_time) == t < end_time

\* The pause left out.
SleepSkipped(t, interval, late) == t + late

\* Line 105: the clock when time.sleep(interval) called at t returns `late'
\* ticks late.
SleepUntil(t, interval, late) == t + interval + late

\* What a stream keeps of a snapshot it yielded: its two time stamps.
Stamps(data) ==
    [timestamp |-> data.timestamp, unix_timestamp |-> data.unix_timestamp]

NoStream == [pc |-> "none"]

\* A generator object before its first next().
NewStream(duration_seconds, interval) ==
    [duration |-> duration_seconds, interval |-> interval, pc |-> "created",
     created |-> now, started |-> 0, end_time |-> 0, checked |-> 0, n |-> 0,
     last |-> [timestamp |-> 0, unix_timestamp |-> 0], exact |-> TRUE,
     pauses |-> 0]

---------------------------------------------------------------------------
(* Configuration and the storage connection (src/utils.py) *)

\* Python's None
None == "(None)"

\* The variables DB() requires, in the order __init__ tests them.
Required == <<"INFLUXDB_URL", "INFLUXDB_TOKEN", "INFLUXDB_ORG", "INFLUXDB_BUCKET">>

EnvNames == {Required[i] : i \in 1..Len(Required)}

\* A variable is unset, set to the empty string or set to something.
EnvValues == {None, "", "set"}

\* An environment with every required variable set.
Configured == [n \in EnvNames |-> "set"]

\* os.getenv(name)
Getenv(e, name) == e[name]

\* `not v' for a string or None
Falsy(v) == v = None \/ v = ""

NoDB == [state |-> "none", client |-> None, error |-> ""]

\* The tests of __init__ made after the client has been created, the bucket
\* first.
DBInitLate(e, bucket) ==
    IF Falsy(bucket)
    THEN [state |-> "raised", client |-> "InfluxDBClient", error |-> "INFLUXDB_BUCKET"]
    ELSE IF Falsy(Getenv(e, "INFLUXDB_URL"))
    THEN [state |-> "raised", client |-> "InfluxDBClient", error |-> "INFLUXDB_URL"]
    ELSE IF Falsy(Getenv(e, "INFLUXDB_TOKEN"))
    THEN [state |-> "raised", client |-> "InfluxDBClient", error |-> "INFLUXDB_TOKEN"]
    ELSE IF Falsy(Getenv(e, "INFLUXDB_ORG"))
    THEN [state |-> "raised", client |-> "InfluxDBClient", error |-> "INFLUXDB_ORG"]
    ELSE [state |-> "constructed", client |-> "InfluxDBClient", error |-> ""]

\* DB.__init__ (lines 21-37) in environment e with the module global
\* INFLUXDB_BUCKET = bucket: the object it leaves, and in `error' the
\* variable the ValueError it raises names.
DBInit(e, bucket) ==
    IF Falsy(Getenv(e, "INFLUXDB_URL"))
    THEN [state |-> "raised", client |-> None, error |-> "INFLUXDB_URL"]
    ELSE IF Falsy(Getenv(e, "INFLUXDB_TOKEN"))
    THEN [state |-> "raised", client |-> None, error |-> "INFLUXDB_TOKEN"]
    ELSE IF Falsy(Getenv(e, "INFLUXDB_ORG"))
    THEN [state |-> "raised", client |-> None, error |-> "INFLUXDB_ORG"]
    ELSE IF Falsy(bucket)
    THEN [state |-> "raised", client |-> None, error |-> "INFLUXDB_BUCKET"]
    ELSE [state |-> "constructed", client |-> None, error |-> ""]

\* DB.__enter__ (lines 39-46): the client is created.
DBEnter(self) == [self EXCEPT !.state = "open", !.client = "InfluxDBClient"]

\* An __exit__ that leaves the client as it is.
DBExitKeepOpen(self) == self

\* DB.__exit__ (lines 48-50): the client is closed.
DBExit(self) == [self EXCEPT !.state = "closed"]

---------------------------------------------------------------------------
(* store_to_db and collect_and_store_obd_data (src/mock_obd.py) *)

\* Line 15, with VEHICLE_ID unset in the environment.
VEHICLE_ID == "vehicle_001"

\* str(b) for a bool
Str(b) == IF b THEN "True" ELSE "False"

UpperCase == "ABCDEFGHIJKLMNOPQRSTUVWXYZ"
LowerCase == "abcdefghijklmnopqrstuvwxyz"

\* str.lower() of one character
LowerChar(c) ==
    IF \E i \in 1..Len(UpperCase) : SubSeq(UpperCase, i, i) = c
    THEN LET i == CHOOSE k \in 1..Len(UpperCase) : SubSeq(UpperCase, k, k) = c
         IN  SubSeq(LowerCase, i, i)
    ELSE c

\* str.lower()
RECURSIVE Lower(_)
Lower(str) ==
    IF Len(str) = 0 THEN ""
    ELSE LowerChar(SubSeq(str, 1, 1)) \o Lower(SubSeq(str, 2, Len(str)))

\* sub in str
Contains(sub, str) ==
    \E i \in 1..(Len(str) - Len(sub) + 1) : SubSeq(str, i, i + Len(sub) - 1) = sub

\* The test made on the description as it is written.
SeverityCaseSensitive(description) ==
    IF Contains("misfire", description) THEN "high" ELSE "medium"

\* Line 152
Severity(description) ==
    IF Contains("misfire", Lower(description)) THEN "high" ELSE "medium"

\* The keys of the reading that lines 121-138 make fields of.
ReadingFields ==
    {"rpm", "speed", "throttle_position", "engine_load", "coolant_temp",
     "intake_temp", "oil_temp", "fuel_level", "fuel_pressure", "fuel_rate",
     "maf", "intake_pressure", "battery_voltage", "ambient_temp",
     "barometric_pressure", "distance", "runtime", "dtc_count"}

\* The point with one field read from the key next to its own.
ReadingPointMixedUp(obd_reading) ==
    [measurement |-> "obd_readings",
     tags   |-> [vehicle_id |-> VEHICLE_ID, mil_status |-> Str(obd_reading.mil_status)],
     fields |-> [k \in ReadingFields |->
                   IF k = "oil_temp" THEN obd_reading.intake_temp
                   ELSE obd_reading[k]]]

\* Lines 117-139: the point of the raw sensor readings.
ReadingPoint(obd_reading) ==
    [measurement |-> "obd_readings",
     tags   |-> [vehicle_id |-> VEHICLE_ID, mil_status |-> Str(obd_reading.mil_status)],
     fields |-> [k \in ReadingFields |-> obd_reading[k]]]

\* Lines 146-159: the point of one active DTC.
DtcPoint(obd_reading, dtc) ==
    [measurement |-> "obd_dtc_events",
     tags   |-> [vehicle_id |-> VEHICLE_ID, dtc_code |-> dtc.code,
                 severity |-> Severity(dtc.description)],
     fields |-> [description  |-> dtc.description,
                 rpm          |-> obd_reading.rpm,
                 speed        |-> obd_reading.speed,
                 coolant_temp |-> obd_reading.coolant_temp,
                 engine_load  |-> obd_reading.engine_load]]

\* The guard asking for more than one DTC.
DtcGuardStrict(obd_reading) == obd_reading.dtc_count > 1

\* Line 144
DtcGuard(obd_reading) == obd_reading.dtc_count > 0

\* The DTC events written last to first.
PointsReversed(obd_reading) ==
    <<ReadingPoint(obd_reading)>> \o
    (IF DtcGuard(obd_reading)
     THEN [i \in 1..Len(obd_reading.dtcs) |->
             DtcPoint(obd_reading,
                      obd_reading.dtcs[Len(obd_reading.dtcs) + 1 - i])]
     ELSE <<>>)

\* Lines 117-161: the points store_to_db hands to db.store_data, in order.
Points(obd_reading) ==
    <<ReadingPoint(obd_reading)>> \o
    (IF DtcGuard(obd_reading)
     THEN [i \in 1..Len(obd_reading.dtcs) |->
             DtcPoint(obd_reading, obd_reading.dtcs[i])]
     ELSE <<>>)

\* What a run of store_to_db leaves when its fail-th write raises (none if
\* fail = 0), given the points pts it would write: the points written, whether
\* it raised, and the reading as it is afterwards.
Stored(obd_reading, pts, fail) ==
    [written     |-> IF fail = 0 THEN pts ELSE SubSeq(pts, 1, fail - 1),
     raised      |-> fail # 0,
     obd_reading |-> obd_reading]

\* store_to_db that takes the DTCs off the reading as it writes them.
StoreToDbConsuming(obd_reading, fail) ==
    Stored([obd_reading EXCEPT !.dtcs = <<>>], Points(obd_reading), fail)

\* store_to_db(db, obd_reading) (lines 108-161); db.store_data raises at the
\* fail-th write.
StoreToDb(obd_reading, fail) == Stored(obd_reading, Points(obd_reading), fail)

NoReading == [dtc_count |-> 0 - 1]

NoResponse ==
    [route |-> "none", source |-> "none", body |-> <<>>,
     lookup |-> [outcome |-> "none", found |-> <<>>]]

NoAnswer == [status |-> "none"]

NoText == <<>>

NoValue == [type |-> "none"]

NoStats == [status |-> "none"]

\* The dashboard before its timers have fired: the chart refreshes made, the
\* states they left the random source in, the charts they drew, the time in
\* the message line, the samples shown since the last chart refresh and the
\* longest run of samples shown after an earlier one.
NoDash ==
    [refreshes |-> 0, after |-> {}, charts |-> {}, message |-> 0,
     shown |-> <<>>, before |-> <<>>]

NoConsole == [pc |-> "none"]

NoLoop == [pc |-> "idle", reading_count |-> 0, write_errors |-> 0,
           raised |-> FALSE, outcome |-> "none"]

---------------------------------------------------------------------------
(* Operations *)

\* Nothing has been allocated.
InitHeap ==
    /\ heap = <<>>
    /\ held = <<>>
    /\ fresh = <<>>
    /\ mutated = {}

\* utils.py has been imported in environment e (line 12 reads the bucket);
\* no DB object has been made.
InitDB(e) ==
    /\ environ = e
    /\ INFLUXDB_BUCKET = Getenv(e, "INFLUXDB_BUCKET")
    /\ db = NoDB

\* The collector has not been started.
InitCollect ==
    /\ loop = NoLoop
    /\ reading = NoReading
    /\ written = <<>>

\* Before anything has been allocated, requested or stored, in a configured
\* deployment.
\* Nothing has been requested or printed.
InitEdge ==
    /\ response = NoResponse
    /\ answer = NoAnswer
    /\ text = NoText
    /\ back = NoValue
    /\ stats = NoStats
    /\ console = NoConsole
    /\ dash = NoDash

InitBeyond == InitHeap /\ InitDB(Configured) /\ InitCollect /\ InitEdge

Init ==
    /\ rng \in 0..(RngMod - 1)
    /\ seededBy = NoSeed
    /\ now = 0
    /\ catalog = dtc_pool
    /\ out = NoResult
    /\ err = "none"
    /\ gen = NoStream
    /\ made = 0
    /\ InitBeyond

\* A seed call that does not reach the random source the generator draws from.
SeedElsewhere(n) ==
    /\ seededBy' = n
    /\ err' = "none"
    /\ UNCHANGED <<rng, now, catalog, out, gen, made, beyond>>

\* random.seed(n)   (src/app.py lines 178 and 210)
Seed(n) ==
    /\ rng' = SeedState(n)
    /\ seededBy' = n
    /\ err' = "none"
    /\ UNCHANGED <<now, catalog, out, gen, made, beyond>>

\* The clock advances while the program does something else.
Tick ==
    /\ now < MaxTime
    /\ now' = now + 1
    /\ UNCHANGED <<rng, seededBy, catalog, out, err, gen, made, beyond>>

\* A caller runs sample_data = mock_obd_data(): datetime.now() reads the clock
\* now, time.time() reads it lag ticks later.
CallMockObdData(lag) ==
    /\ now + lag <= MaxTime
    /\ LET r == MockObdData(catalog, rng, now, now + lag)
       IN  /\ rng' = r.rng
           /\ out' = Returned(r)
           /\ err' = Raised(r)
    /\ seededBy' = NoSeed
    /\ now' = now + lag
    /\ UNCHANGED <<catalog, gen, made, beyond>>

\* g = mock_obd_stream(duration_seconds, interval): the call of a generator
\* function runs none of its body; it returns the generator object.  The
\* consumer holds one generator object at a time.
StreamCreate(duration_seconds, interval) ==
    /\ gen = NoStream
    /\ made < MaxStreams
    /\ gen' = NewStream(duration_seconds, interval)
    /\ made' = made + 1
    /\ err' = "none"
    /\ UNCHANGED <<rng, seededBy, now, catalog, out, beyond>>

\* next(g).  The first one runs line 101 and enters the loop; a later one
\* (counted in pauses once time.sleep has returned)
\* resumes after the yield with time.sleep(interval), which raises ValueError
\* for a negative interval and returns `late' ticks late otherwise.  The loop
\* condition reads the clock lagC ticks after line 101 (a late return of sleep
\* stands for it when the stream resumes); mock_obd_data reads it lag1 and
\* lag1 + lag2 ticks later.
StreamNext(late, lagC, lag1, lag2) ==
    LET g      == gen
        first  == g.pc = "created"
        raises == ~first /\ g.interval < 0
        start  == IF first THEN now ELSE g.started
        end    == IF first THEN EndTime(now, g.duration) ELSE g.end_time
        tCheck == IF first THEN now + lagC ELSE SleepUntil(now, g.interval, late)
        t1     == tCheck + lag1
        t2     == t1 + lag2
        r      == MockObdData(catalog, rng, t1, t2)
        onTime == g.exact /\ tCheck = start + g.n * g.interval
    IN  /\ g.pc \in {"created", "suspended"}
        /\ g.n < MaxYields
        /\ first => late = 0
        /\ ~first => lagC = 0
        /\ IF raises
           THEN /\ late = 0 /\ lag1 = 0 /\ lag2 = 0
                /\ gen' = [g EXCEPT !.pc = "failed"]
                /\ err' = "ValueError"
                /\ UNCHANGED <<rng, seededBy, now, out>>
           ELSE IF ~LoopCondition(tCheck, end)
           THEN /\ lag1 = 0 /\ lag2 = 0
                /\ tCheck <= MaxTime
                /\ gen' = [g EXCEPT !.pc = "done", !.started = start,
                                    !.end_time = end, !.checked = tCheck,
                                    !.exact = onTime,
                                    !.pauses = IF first THEN @ ELSE @ + 1]
                /\ now' = tCheck
                /\ err' = "none"
                /\ UNCHANGED <<rng, seededBy, out>>
           ELSE /\ t2 <= MaxTime
                /\ gen' = IF r.status = "ok"
                          THEN [g EXCEPT !.pc = "suspended", !.started = start,
                                         !.end_time = end, !.checked = tCheck,
                                         !.exact = onTime, !.n = g.n + 1,
                                         !.last = Stamps(r.data),
                                         !.pauses = IF first THEN @ ELSE @ + 1]
                          ELSE [g EXCEPT !.pc = "failed", !.started = start,
                                         !.end_time = end, !.checked = tCheck,
                                         !.exact = onTime,
                                         !.pauses = IF first THEN @ ELSE @ + 1]
                /\ rng' = r.rng
                /\ seededBy' = NoSeed
                /\ out' = Returned(r)
                /\ now' = t2
                /\ err' = Raised(r)
        /\ UNCHANGED <<catalog, made, beyond>>

\* The consumer lets go of its generator object, exhausted or not: it stops
\* consuming, and nothing of the stream is left.
StreamDrop ==
    /\ gen # NoStream
    /\ gen' = NoStream
    /\ UNCHANGED <<rng, seededBy, now, catalog, out, err, made, beyond>>

---------------------------------------------------------------------------
(* Objects.  A dict or a list is an object of the heap; whoever holds a    *)
(* reference to it sees what anyone writes to it.  mock_obd_data() builds  *)
(* its result out of the objects its body allocates.                       *)

DictObj(v) == [kind |-> "dict", v |-> v]

ListObj(refs) == [kind |-> "list", v |-> refs]

\* The value an object of heap h stands for, references followed: a list
\* becomes the sequence of its items' values, a snapshot gets the value of
\* its dtcs list.
RECURSIVE Deep(_, _)
Deep(h, ref) ==
    IF h[ref].kind = "list"
    THEN [i \in 1..Len(h[ref].v) |-> Deep(h, h[ref].v[i])]
    ELSE IF "dtcs" \in DOMAIN h[ref].v
    THEN [h[ref].v EXCEPT !.dtcs = Deep(h, h[ref].v.dtcs)]
    ELSE h[ref].v

\* The catalog as one list made when the first call runs and used by every
\* call after it.
SharedPool(h) ==
    IF h # <<>>
    THEN [heap |-> h, pool |-> Len(dtc_pool) + 1]
    ELSE [heap |-> [i \in 1..(Len(dtc_pool) + 1) |->
                     IF i <= Len(dtc_pool) THEN DictObj(dtc_pool[i])
                     ELSE ListObj([j \in 1..Len(dtc_pool) |-> j])],
          pool |-> Len(dtc_pool) + 1]

\* Lines 25-42: dtc_pool = [ {...}, ... ] is a list display of dict displays
\* in the body of the function; every call evaluates it anew, to ten new
\* dicts in a new list.  Returns the heap after it and the list's reference.
NewPool(h) ==
    [heap |-> [i \in 1..(Len(h) + Len(dtc_pool) + 1) |->
                 IF i <= Len(h) THEN h[i]
                 ELSE IF i <= Len(h) + Len(dtc_pool) THEN DictObj(dtc_pool[i - Len(h)])
                 ELSE ListObj([j \in 1..Len(dtc_pool) |-> Len(h) + j])],
     pool |-> Len(h) + Len(dtc_pool) + 1]

\* What one call of mock_obd_data() allocates on heap h, drawing from random
\* state s at time t: the catalog (lines 25-42), the list random.sample
\* returns or the [] of line 47, whose items are the catalog's own dicts, and
\* the dict mock_data (lines 50-85), which refers to that list.
Allocated(p, d, t) ==
    [heap     |-> p.heap \o
                  << ListObj(d.active_dtcs),
                     DictObj(Stamp([MockData(d).data EXCEPT
                                        !.dtcs = Len(p.heap) + 1], t, t)) >>,
     catalog  |-> Deep(p.heap, p.pool),
     rng      |-> MockData(d).rng,
     snapshot |-> Len(p.heap) + 2]

\* What the caller's record of a call is: the value of the snapshot and of
\* the catalog at the time of the call.
Record(a) == [snapshot |-> Deep(a.heap, a.snapshot), catalog |-> a.catalog]

\* The draw of lines 45-47 over the items of the catalog object p.
DrawnFrom(p, s) == DrawDtcs(p.heap[p.pool].v, s)

\* A caller runs snap = mock_obd_data() and keeps the snapshot.
CallAndKeep ==
    /\ Len(held) < MaxHeld
    /\ \E a \in {Allocated(NewPool(heap), DrawnFrom(NewPool(heap), rng), now)} :
          /\ heap' = a.heap
          /\ held' = Append(held, a.snapshot)
          /\ fresh' = Append(fresh, Record(a))
          /\ rng' = a.rng
    /\ seededBy' = NoSeed
    /\ err' = "none"
    /\ UNCHANGED <<now, catalog, out, gen, made, mutated,
                   dbVars, collectVars, edgeVars>>

\* The caller writes to a key of a snapshot it keeps: snap["rpm"] = 0
MutateSnapshot(i) ==
    /\ i \in 1..Len(held)
    /\ heap' = [heap EXCEPT ![held[i]].v.rpm = 0]
    /\ mutated' = mutated \cup {i}
    /\ UNCHANGED <<rng, seededBy, now, catalog, out, err, gen, made, held, fresh,
                   dbVars, collectVars, edgeVars>>

\* The caller empties the dtcs list of a snapshot: snap["dtcs"].clear()
MutateDtcs(i) ==
    /\ i \in 1..Len(held)
    /\ heap' = [heap EXCEPT ![heap[held[i]].v.dtcs].v = <<>>]
    /\ mutated' = mutated \cup {i}
    /\ UNCHANGED <<rng, seededBy, now, catalog, out, err, gen, made, held, fresh,
                   dbVars, collectVars, edgeVars>>

\* The caller writes to an entry of the dtcs list:
\* snap["dtcs"][j]["code"] = "P0000"
MutateDtc(i, j) ==
    /\ i \in 1..Len(held)
    /\ j \in 1..Len(heap[heap[held[i]].v.dtcs].v)
    /\ heap' = [heap EXCEPT ![heap[heap[held[i]].v.dtcs].v[j]].v.code = "P0000"]
    /\ mutated' = mutated \cup {i}
    /\ UNCHANGED <<rng, seededBy, now, catalog, out, err, gen, made, held, fresh,
                   dbVars, collectVars, edgeVars>>

---------------------------------------------------------------------------
(* The web API (src/main.py) *)

\* The closed interval mock_obd_data() draws each sensor value from, in the
\* unit the snapshot holds it in (hundredths for the values rounded to two
\* digits, tenths for distance).
GeneratorRange ==
    [rpm                 |-> [lo |-> 700, hi |-> 3500],
     speed               |-> [lo |-> 0, hi |-> 120],
     throttle_position   |-> [lo |-> 0, hi |-> 10000],
     engine_load         |-> [lo |-> 1000, hi |-> 9000],
     coolant_temp        |-> [lo |-> 75, hi |-> 105],
     intake_temp         |-> [lo |-> 20, hi |-> 60],
     oil_temp            |-> [lo |-> 80, hi |-> 110],
     fuel_level          |-> [lo |-> 1000, hi |-> 9500],
     fuel_pressure       |-> [lo |-> 20000, hi |-> 40000],
     fuel_rate           |-> [lo |-> 50, hi |-> 1500],
     maf                 |-> [lo |-> 200, hi |-> 2500],
     intake_pressure     |-> [lo |-> 3000, hi |-> 10000],
     battery_voltage     |-> [lo |-> 1250, hi |-> 1450],
     ambient_temp        |-> [lo |-> 15, hi |-> 35],
     barometric_pressure |-> [lo |-> 9500, hi |-> 10500],
     distance            |-> [lo |-> 0, hi |-> 500000],
     runtime             |-> [lo |-> 0, hi |-> 10000]]

\* get_mock_data() (lines 93-114) run from random state s with the clock at
\* t: sixteen draws in the order of the dict literal.  A value is given in
\* the unit GeneratorRange has for its key: whole numbers drawn with randint
\* are hundredfold under the keys the generator rounds to two digits and
\* tenfold under distance; battery_voltage, rounded to one digit, is tenfold
\* its tenths.
GetMockData(s, t) ==
    LET g(i) == RngStepN(s, i)
    IN  [rng  |-> g(16),
         data |-> [
            timestamp           |-> t,
            vehicle_id          |-> VEHICLE_ID,
            engine_rpm          |-> RandInt(800, 3000, g(1)),
            speed               |-> RandInt(0, 80, g(2)),
            throttle_position   |-> 100 * RandInt(0, 100, g(3)),
            engine_load         |-> 100 * RandInt(20, 90, g(4)),
            coolant_temp        |-> RandInt(80, 105, g(5)),
            oil_temp            |-> RandInt(85, 110, g(6)),
            intake_temp         |-> RandInt(15, 35, g(7)),
            ambient_temp        |-> RandInt(10, 30, g(8)),
            fuel_level          |-> 100 * RandInt(20, 100, g(9)),
            fuel_pressure       |-> 100 * RandInt(250, 300, g(10)),
            fuel_rate           |-> 100 * RandInt(5, 15, g(11)),
            intake_pressure     |-> 100 * RandInt(20, 30, g(12)),
            barometric_pressure |-> 100 * RandInt(95, 105, g(13)),
            battery_voltage     |-> 10 * UniformRounded(120, 145, g(14)),
            distance            |-> 10 * RandInt(450, 500, g(15)),
            runtime             |-> RandInt(180, 240, g(16)) ]]

\* DB._parse_pivoted_results (src/utils.py 170-183) on the one record the
\* query of get_latest_reading finds for a stored point: its time, and every
\* column that is a tag or a field of the point.
ParsePivoted(point, t) ==
    [k \in {"time"} \cup DOMAIN point.tags \cup DOMAIN point.fields |->
        IF k = "time" THEN t
        ELSE IF k \in DOMAIN point.tags THEN point.tags[k]
        ELSE point.fields[k]]

\* What the query of db.get_latest_reading does: it raises, finds no record
\* of the last 24 hours, or finds one.
QueryOutcomes == {"raises", "empty", "row"}

\* The random states of the snapshots whose reading points the database may
\* hold as the latest.
StoredStates == {SeedState(n) : n \in Seeds}

\* DB._parse_results (src/utils.py 185-198) on one record: its time, field,
\* value and measurement.
MilEntry(t, value) ==
    [time |-> t, field |-> "dtc_count", value |-> value,
     measurement |-> "obd_readings"]

\* Histories db.get_mil_status_history may return for the last 24 hours.
Histories ==
    {<<>>, <<MilEntry(0, 0)>>, <<MilEntry(0, 0), MilEntry(1, 2)>>,
     <<MilEntry(0, 2), MilEntry(1, 0)>>}

\* Lines 86-90: the response of /api/mil-status when the lookup raises.
MilFixed ==
    [status |-> TRUE, codes |-> <<"P0113">>,
     description |-> "Intake Air Temperature Sensor Circuit High"]

\* Line 83: the response when the history is empty.
MilDefault == [status |-> FALSE, codes |-> <<>>]

---------------------------------------------------------------------------
(* DB.get_field_stats: floating-point arithmetic on the values of a field *)

RECURSIVE Pow2(_)
Pow2(n) == IF n = 0 THEN 1 ELSE 2 * Pow2(n - 1)

\* Floats are binary, of Precision significant bits, and are held as whole
\* numbers of the spacing of the floats between 1.0 and 2.0: this many make
\* 1.0.
FloatOne == Pow2(Precision - 1)

\* The spacing of the floats around the number a / b >= 1.0: the largest
\* power of two u, u or more, that leaves a / b at least Pow2(Precision - 1)
\* spacings long.
RECURSIVE Ulp(_, _, _)
Ulp(a, b, u) ==
    IF 2 * u * FloatOne * b <= a THEN Ulp(a, b, 2 * u) ELSE u

\* a / b rounded to the nearest multiple of the spacing u, a tie going to the
\* even multiple: the rounding of every float operation.
RoundNearestEven(a, b, u) ==
    IF 2 * (a % (b * u)) > b * u THEN (a \div (b * u) + 1) * u
    ELSE IF 2 * (a % (b * u)) < b * u THEN (a \div (b * u)) * u
    ELSE IF (a \div (b * u)) % 2 = 0 THEN (a \div (b * u)) * u
    ELSE (a \div (b * u) + 1) * u

\* The float nearest to a / b
FloatRound(a, b) == RoundNearestEven(a, b, Ulp(a, b, 1))

\* The floats from 1.0 to 2.0, the values a field may hold.
FloatValues == FloatOne..(2 * FloatOne)

\* sum(values): the items added from the left, from the int 0 on, each
\* addition rounded.
RECURSIVE FloatSum(_, _)
FloatSum(values, n) ==
    IF n = 0 THEN 0
    ELSE IF n = 1 THEN values[1]
    ELSE FloatRound(FloatSum(values, n - 1) + values[n], 1)

\* min(values) and max(values)
Min(values) == CHOOSE v \in {values[i] : i \in DOMAIN values} :
                  \A i \in DOMAIN values : v <= values[i]

Max(values) == CHOOSE v \in {values[i] : i \in DOMAIN values} :
                  \A i \in DOMAIN values : v >= values[i]

\* Lines 117-128: what get_field_stats makes of the values of the query.
FieldStats(field, values) ==
    IF values = <<>> THEN [status |-> "None"]
    ELSE [status |-> "dict",
          field  |-> field,
          min    |-> Min(values),
          max    |-> Max(values),
          mean   |-> FloatRound(FloatSum(values, Len(values)), Len(values)),
          count  |-> Len(values)]

\* Fields of obd_readings that hold floats, asked for by LLM.diagnose.
FloatFields == {"engine_load", "fuel_rate", "battery_voltage"}

---------------------------------------------------------------------------
(* The LLM layer (class LLM of utils.py, in its two versions) *)

\* The two files that define DB and LLM.
Utils == {"src/utils.py", "src/src/utils.py"}

Operations == {"query", "diagnose", "analyze_trend", "get_maintenance_advice"}

\* The `def' lines of the DB methods the LLM layer calls: the parameters
\* after self and how many of them, from the left, have no default.
DBMethods(u) ==
    IF u = "src/utils.py"
    THEN [get_recent_data     |-> [params   |-> <<"vehicle_id", "hours", "limit">>,
                                   required |-> 0],
          get_latest_reading  |-> [params |-> <<"vehicle_id">>, required |-> 1],
          get_field_stats     |-> [params   |-> <<"field", "vehicle_id", "hours">>,
                                   required |-> 1],
          get_aggregated_data |-> [params   |-> <<"field", "vehicle_id", "hours",
                                                  "window">>,
                                   required |-> 1]]
    ELSE [get_recent_data     |-> [params |-> <<"hours", "limit">>, required |-> 0],
          get_latest_reading  |-> [params |-> <<>>, required |-> 0],
          get_field_stats     |-> [params |-> <<"field", "hours">>, required |-> 1],
          get_aggregated_data |-> [params   |-> <<"field", "hours", "window">>,
                                   required |-> 1]]

\* The forward methods of the DSPy modules, the same in both files.
Forward ==
    [OBDQueryModule    |-> [params |-> <<"obd_data", "question">>, required |-> 2],
     DiagnosticsModule |-> [params   |-> <<"current_reading", "statistics">>,
                            required |-> 2],
     TrendModule       |-> [params   |-> <<"field_name", "statistics", "time_series">>,
                            required |-> 3],
     MaintenanceModule |-> [params   |-> <<"obd_readings", "dtc_info", "mileage">>,
                            required |-> 3]]

\* Inside class LLM a name that begins with two underscores and does not end
\* with two is stored under the class name.
Mangle(name) ==
    IF /\ Len(name) > 2
       /\ SubSeq(name, 1, 2) = "__"
       /\ SubSeq(name, Len(name) - 1, Len(name)) # "__"
    THEN "_LLM" \o name
    ELSE name

\* The attributes LLM.__init__ sets on the instance, with the class of the
\* module each one holds.
Attributes ==
    [n \in {Mangle("__query_module"), Mangle("__diagnostics_module"),
            Mangle("__trend_module"), Mangle("__maintenance_module")} |->
        IF n = Mangle("__query_module") THEN "OBDQueryModule"
        ELSE IF n = Mangle("__diagnostics_module") THEN "DiagnosticsModule"
        ELSE IF n = Mangle("__trend_module") THEN "TrendModule"
        ELSE "MaintenanceModule"]

\* Python binding the arguments of a call, npos positional ones and the
\* keywords kw, to the parameters of sig: TypeError for too many positional
\* arguments, an unknown keyword, a parameter given twice or a parameter
\* without default left out.
Bind(sig, npos, kw) ==
    IF npos > Len(sig.params) THEN "TypeError"
    ELSE IF \E k \in kw : \A i \in 1..Len(sig.params) : sig.params[i] # k
    THEN "TypeError"
    ELSE IF \E i \in 1..npos : sig.params[i] \in kw THEN "TypeError"
    ELSE IF \E i \in 1..sig.required : i > npos /\ sig.params[i] \notin kw
    THEN "TypeError"
    ELSE "ok"

\* The body of each operation of LLM as the steps that can end it: a call of
\* a DB method ("db"), an early return when the database gave nothing
\* ("unless_data"), and the call of a DSPy module through an attribute of
\* self ("module"), whose result the operation returns.  npos is the number
\* of positional arguments of the call and kw its keywords.  The five calls
\* of get_field_stats in the loop of diagnose are alike and stand as one.
LLMCode(u) ==
    [query |-> <<
        [kind |-> "db", name |-> "get_recent_data", npos |-> 0,
         kw |-> {"vehicle_id", "hours"}],
        [kind |-> "module", name |-> "__query_module", npos |-> 0,
         kw |-> {"obd_data", "question"}] >>,
     diagnose |-> <<
        [kind |-> "db", name |-> "get_latest_reading", npos |-> 1, kw |-> {}],
        [kind |-> "db", name |-> "get_field_stats", npos |-> 3, kw |-> {}],
        [kind |-> "module", name |-> "__diagnostics_module", npos |-> 0,
         kw |-> {"current_reading", "statistics"}] >>,
     analyze_trend |-> <<
        [kind |-> "db", name |-> "get_field_stats", npos |-> 3, kw |-> {}],
        [kind |-> "db", name |-> "get_aggregated_data", npos |-> 3,
         kw |-> {"window"}],
        [kind |-> "unless_data", name |-> "No data available for ...", npos |-> 0,
         kw |-> {}],
        [kind |-> "module", name |-> "__trend_module", npos |-> 0,
         kw |-> {"field_name", "statistics", "time_series"}] >>,
     get_maintenance_advice |-> <<
        [kind |-> "db", name |-> "get_latest_reading", npos |-> 1, kw |-> {}],
        [kind |-> "unless_data", name |-> "No recent data available", npos |-> 0,
         kw |-> {}],
        [kind |-> "module",
         name |-> IF u = "src/utils.py" THEN "maintenance_module"
                  ELSE "__maintenance_module",
         npos |-> 0,
         kw   |-> {"obd_readings", "dtc_info", "mileage"}] >>]

\* The steps run from the i-th on, against a database that holds data or
\* not: how the operation ends, and at which name.
RECURSIVE RunSteps(_, _, _, _)
RunSteps(u, steps, i, data) ==
    LET st == steps[i]
    IN  IF st.kind = "db"
        THEN IF Bind(DBMethods(u)[st.name], st.npos, st.kw) # "ok"
             THEN [status |-> "TypeError", at |-> st.name]
             ELSE RunSteps(u, steps, i + 1, data)
        ELSE IF st.kind = "unless_data"
        THEN IF data = "empty"
             THEN [status |-> "returned", at |-> st.name]
             ELSE RunSteps(u, steps, i + 1, data)
        ELSE IF Mangle(st.name) \notin DOMAIN Attributes
        THEN [status |-> "AttributeError", at |-> st.name]
        ELSE IF Bind(Forward[Attributes[Mangle(st.name)]], st.npos, st.kw) # "ok"
        THEN [status |-> "TypeError", at |-> st.name]
        ELSE [status |-> "returned", at |-> st.name]

\* Calls of DB.__exit__ in LLM.__exit__: two in src/utils.py (329-331), one
\* in src/src/utils.py.
ExitCalls(u) == IF u = "src/utils.py" THEN 2 ELSE 1

\* What the database holds for the queries of the LLM layer.
DataOutcomes == {"empty", "row"}

---------------------------------------------------------------------------
(* json.dumps and json.loads on a snapshot (src/mock_obd.py 241-242) *)

DecimalDigits == "0123456789"

RECURSIVE Pow10(_)
Pow10(n) == IF n = 0 THEN 1 ELSE 10 * Pow10(n - 1)

\* str(n) for an integer n >= 0
RECURSIVE Digits(_)
Digits(n) ==
    IF n < 10 THEN SubSeq(DecimalDigits, n + 1, n + 1)
    ELSE Digits(n \div 10) \o SubSeq(DecimalDigits, (n % 10) + 1, (n % 10) + 1)

\* int(str) for a string of decimal digits
RECURSIVE ParseDigits(_)
ParseDigits(str) ==
    IF Len(str) = 0 THEN 0
    ELSE 10 * ParseDigits(SubSeq(str, 1, Len(str) - 1))
         + (CHOOSE d \in 0..9 :
               SubSeq(DecimalDigits, d + 1, d + 1) = SubSeq(str, Len(str), Len(str)))

\* n written with at least width digits
RECURSIVE Padded(_, _)
Padded(n, width) ==
    IF Len(Digits(n)) >= width THEN Digits(n) ELSE "0" \o Padded(n, width - 1)

\* The zeros at the end of a string of digits taken off
RECURSIVE StripZeros(_)
StripZeros(str) ==
    IF Len(str) > 0 /\ SubSeq(str, Len(str), Len(str)) = "0"
    THEN StripZeros(SubSeq(str, 1, Len(str) - 1))
    ELSE str

\* The model holds the float under a key as a whole number of hundredths, of
\* tenths under distance: the digits the value was rounded to.
Places(k) == IF k = "distance" THEN 1 ELSE 2

\* datetime.isoformat() of the clock reading t, as some text that names t.
IsoFormat(t) == "T" \o Digits(t)

\* The Python object under key k of a snapshot whose model value there is v.
PyValue(k, v) ==
    IF KeyType[k] = "int" THEN [type |-> "int", num |-> v]
    ELSE IF KeyType[k] = "float"
    THEN [type |-> "float", num |-> v, scale |-> Places(k)]
    ELSE IF KeyType[k] = "bool" THEN [type |-> "bool", b |-> v]
    ELSE IF KeyType[k] = "str" THEN [type |-> "str", s |-> IsoFormat(v)]
    ELSE [type  |-> "list",
          items |-> [i \in 1..Len(v) |->
                       [type  |-> "dict",
                        items |-> [f \in DOMAIN v[i] |->
                                     [type |-> "str", s |-> v[i][f]]]]]]

\* The snapshot as the Python dict it is.
PyDict(data) ==
    [type |-> "dict", items |-> [k \in DOMAIN data |-> PyValue(k, data[k])]]

\* A float written without its fraction when that is zero, as JavaScript
\* writes numbers.
FloatReprBare(num, scale) ==
    LET whole == num \div Pow10(scale)
        frac  == StripZeros(Padded(num % Pow10(scale), scale))
    IN  IF frac = "" THEN Digits(whole) ELSE Digits(whole) \o "." \o frac

\* float.__repr__ of num / 10^scale >= 0, which json.dumps writes: the
\* shortest decimal that reads back as the same float, always with a
\* fraction part.  (No value of a snapshot is large or small enough for the
\* exponent form.)
FloatRepr(num, scale) ==
    LET whole == num \div Pow10(scale)
        frac  == StripZeros(Padded(num % Pow10(scale), scale))
    IN  Digits(whole) \o "." \o (IF frac = "" THEN "0" ELSE frac)

\* json.dumps: the JSON value written for a Python object.  A scalar is the
\* text of its token; an array and an object keep their structure.  The
\* strings of a snapshot hold no character that JSON escapes.
RECURSIVE Dumps(_)
Dumps(obj) ==
    IF obj.type = "int" THEN [kind |-> "scalar", tok |-> Digits(obj.num)]
    ELSE IF obj.type = "float"
    THEN [kind |-> "scalar", tok |-> FloatRepr(obj.num, obj.scale)]
    ELSE IF obj.type = "bool"
    THEN [kind |-> "scalar", tok |-> IF obj.b THEN "true" ELSE "false"]
    ELSE IF obj.type = "str"
    THEN [kind |-> "scalar", tok |-> "\"" \o obj.s \o "\""]
    ELSE IF obj.type = "list"
    THEN [kind |-> "array", items |-> [i \in DOMAIN obj.items |-> Dumps(obj.items[i])]]
    ELSE [kind    |-> "object",
          members |-> [k \in DOMAIN obj.items |-> Dumps(obj.items[k])]]

\* The place of the decimal point in a token, 0 when it has none
PointAt(tok) ==
    IF Contains(".", tok)
    THEN CHOOSE i \in 1..Len(tok) : SubSeq(tok, i, i) = "."
    ELSE 0

\* json.loads of one scalar token: true and false give a bool, a quoted text
\* a str, a number with a fraction part a float and any other number an int.
LoadsScalar(tok) ==
    IF tok = "true" THEN [type |-> "bool", b |-> TRUE]
    ELSE IF tok = "false" THEN [type |-> "bool", b |-> FALSE]
    ELSE IF SubSeq(tok, 1, 1) = "\""
    THEN [type |-> "str", s |-> SubSeq(tok, 2, Len(tok) - 1)]
    ELSE IF PointAt(tok) > 0
    THEN [type  |-> "float",
          num   |-> ParseDigits(SubSeq(tok, 1, PointAt(tok) - 1)
                                \o SubSeq(tok, PointAt(tok) + 1, Len(tok))),
          scale |-> Len(tok) - PointAt(tok)]
    ELSE [type |-> "int", num |-> ParseDigits(tok)]

\* json.loads: the Python object read from a JSON value.
RECURSIVE Loads(_)
Loads(j) ==
    IF j.kind = "scalar" THEN LoadsScalar(j.tok)
    ELSE IF j.kind = "array"
    THEN [type |-> "list", items |-> [i \in DOMAIN j.items |-> Loads(j.items[i])]]
    ELSE [type |-> "dict", items |-> [k \in DOMAIN j.members |-> Loads(j.members[k])]]

\* a == b in Python together with type(a) is type(b), through lists and
\* dicts.  Two floats are equal when they are the same number, however many
\* digits each was written with.
RECURSIVE Same(_, _)
Same(a, b) ==
    /\ a.type = b.type
    /\ IF a.type = "int" THEN a.num = b.num
       ELSE IF a.type = "float"
       THEN a.num * Pow10(b.scale) = b.num * Pow10(a.scale)
       ELSE IF a.type = "bool" THEN a.b = b.b
       ELSE IF a.type = "str" THEN a.s = b.s
       ELSE /\ DOMAIN a.items = DOMAIN b.items
            /\ \A k \in DOMAIN a.items : Same(a.items[k], b.items[k])

---------------------------------------------------------------------------
(* A client of DB: db = DB(), then `with db:' *)

\* db = DB()
Construct ==
    /\ db.state \in {"none", "raised", "closed"}
    /\ db' = DBInit(environ, INFLUXDB_BUCKET)
    /\ err' = IF db'.state = "raised" THEN "ValueError" ELSE "none"
    /\ UNCHANGED <<rng, seededBy, now, catalog, out, gen, made, heapVars,
                   environ, INFLUXDB_BUCKET, collectVars, edgeVars>>

\* db.__enter__()
Enter ==
    /\ db.state = "constructed"
    /\ db' = DBEnter(db)
    /\ err' = "none"
    /\ UNCHANGED <<rng, seededBy, now, catalog, out, gen, made, heapVars,
                   environ, INFLUXDB_BUCKET, collectVars, edgeVars>>

\* db.__exit__(...)
Exit ==
    /\ db.state = "open"
    /\ db' = DBExit(db)
    /\ err' = "none"
    /\ UNCHANGED <<rng, seededBy, now, catalog, out, gen, made, heapVars,
                   environ, INFLUXDB_BUCKET, collectVars, edgeVars>>

---------------------------------------------------------------------------
(* GET /api/obd-data *)

\* A handler that constructs DB() outside its try, so that a missing setting
\* ends the request with the ValueError.
GetObdDataUnguarded(q, s) ==
    LET self   == DBInit(environ, INFLUXDB_BUCKET)
        stored == self.state = "constructed" /\ q = "row"
        mock   == GetMockData(rng, now)
        row    == ParsePivoted(ReadingPoint(SampledTable[Len(dtc_pool)][s].data),
                               now)
    IN  /\ response' =
              IF self.state = "raised" THEN response
              ELSE [route  |-> "/api/obd-data",
                    source |-> IF stored THEN "stored" ELSE "mock",
                    body   |-> IF stored THEN row ELSE mock.data,
                    lookup |-> [outcome |-> q,
                                found   |-> IF stored THEN <<row>> ELSE <<>>]]
        /\ rng' = IF stored \/ self.state = "raised" THEN rng ELSE mock.rng
        /\ err' = IF self.state = "raised" THEN "ValueError" ELSE "none"
        /\ UNCHANGED <<seededBy, now, catalog, out, gen, made, heapVars, dbVars,
                       collectVars, answer, text, back, moreVars>>

\* get_obd_data() (lines 25-37).  DB() may raise for a missing setting; the
\* query ends as q says, a record found being the row of the reading point
\* of the snapshot that random state s makes.  Every path but the last
\* returns get_mock_data(), which reads the clock and draws from random.
\* The DB object is local to the handler and is closed on every way out of
\* the `with' block.
GetObdData(q, s) ==
    LET self   == DBInit(environ, INFLUXDB_BUCKET)
        stored == self.state = "constructed" /\ q = "row"
        mock   == GetMockData(rng, now)
        row    == ParsePivoted(ReadingPoint(SampledTable[Len(dtc_pool)][s].data),
                               now)
    IN  /\ response' =
              [route  |-> "/api/obd-data",
               source |-> IF stored THEN "stored" ELSE "mock",
               body   |-> IF stored THEN row ELSE mock.data,
               lookup |-> [outcome |-> IF self.state = "raised" THEN "ValueError"
                                       ELSE q,
                           found   |-> IF stored THEN <<row>> ELSE <<>>]]
        /\ rng' = IF stored THEN rng ELSE mock.rng
        /\ err' = "none"
        /\ UNCHANGED <<seededBy, now, catalog, out, gen, made, heapVars, dbVars,
                       collectVars, answer, text, back, moreVars>>

---------------------------------------------------------------------------
(* GET /api/mil-status *)

\* A handler that answers with the oldest entry of the history.
GetMilStatusFirst(raises, history) ==
    LET self   == DBInit(environ, INFLUXDB_BUCKET)
        failed == self.state = "raised" \/ raises
    IN  /\ response' =
              [route  |-> "/api/mil-status",
               source |-> IF failed THEN "fixed"
                          ELSE IF history # <<>> THEN "history" ELSE "default",
               body   |-> IF failed THEN MilFixed
                          ELSE IF history # <<>> THEN history[1]
                          ELSE MilDefault,
               lookup |-> [outcome |-> IF self.state = "raised" THEN "ValueError"
                                       ELSE IF raises THEN "raises"
                                       ELSE IF history # <<>> THEN "rows"
                                       ELSE "empty",
                           found   |-> IF failed THEN <<>> ELSE history]]
        /\ err' = "none"
        /\ UNCHANGED <<rng, seededBy, now, catalog, out, gen, made, heapVars,
                       dbVars, collectVars, answer, text, back, moreVars>>

\* get_mil_status() (lines 78-91).  DB() may raise for a missing setting and
\* the lookup may raise; otherwise db.get_mil_status_history returns history.
\* history[-1] if history else {"status": False, "codes": []} is returned,
\* and the fixed response of lines 86-90 when anything raised.
GetMilStatus(raises, history) ==
    LET self   == DBInit(environ, INFLUXDB_BUCKET)
        failed == self.state = "raised" \/ raises
    IN  /\ response' =
              [route  |-> "/api/mil-status",
               source |-> IF failed THEN "fixed"
                          ELSE IF history # <<>> THEN "history" ELSE "default",
               body   |-> IF failed THEN MilFixed
                          ELSE IF history # <<>> THEN history[Len(history)]
                          ELSE MilDefault,
               lookup |-> [outcome |-> IF self.state = "raised" THEN "ValueError"
                                       ELSE IF raises THEN "raises"
                                       ELSE IF history # <<>> THEN "rows"
                                       ELSE "empty",
                           found   |-> IF failed THEN <<>> ELSE history]]
        /\ err' = "none"
        /\ UNCHANGED <<rng, seededBy, now, catalog, out, gen, made, heapVars,
                       dbVars, collectVars, answer, text, back, moreVars>>

---------------------------------------------------------------------------
(* db.get_field_stats(field, ...) *)

\* get_field_stats (src/utils.py 99-128) on an open connection, for the field
\* asked for and the values its query yields.
GetFieldStats ==
    /\ db.state = "open"
    /\ stats # NoStats
    /\ stats' = [stats EXCEPT !.result = FieldStats(stats.field, stats.query)]
    /\ err' = "none"
    /\ UNCHANGED <<rng, seededBy, now, catalog, out, gen, made, heapVars, dbVars,
                   collectVars, response, answer, text, back, console, dash>>

---------------------------------------------------------------------------
(* with LLM() as llm: llm.<operation>(...) *)

\* The program of src/tests/mock_query.py (lines 6-9) for any operation op
\* of the LLM class of file u: LLM() constructs DB(), which may raise for a
\* missing setting; __enter__ opens the client, the operation runs, and
\* __exit__ closes the client whether the operation returned or raised.
LLMRun(u, op, data) ==
    LET self == DBInit(environ, INFLUXDB_BUCKET)
        r    == RunSteps(u, LLMCode(u)[op], 1, data)
    IN  /\ answer' =
              IF self.state = "raised"
              THEN [utils |-> u, op |-> op, status |-> "ValueError",
                    at |-> self.error, closes |-> 0]
              ELSE [utils |-> u, op |-> op, status |-> r.status, at |-> r.at,
                    closes |-> ExitCalls(u)]
        /\ err' = IF self.state = "raised" THEN "ValueError"
                  ELSE IF r.status = "returned" THEN "none" ELSE r.status
        /\ UNCHANGED <<rng, seededBy, now, catalog, out, gen, made, heapVars,
                       dbVars, collectVars, response, text, back, moreVars>>

\* Line 390: time_series[:20]
TrendPoints == 20

\* Numbers of points get_aggregated_data may return.
SeriesLengths == {0, 1, TrendPoints, TrendPoints + 1, TrendPoints + 5}

\* seq[:n]
Slice(seq, n) == SubSeq(seq, 1, IF Len(seq) < n THEN Len(seq) ELSE n)

\* `with LLM() as llm: llm.analyze_trend(field_name)' with the LLM class of
\* file u, when get_field_stats finds values or not (hasStats) and
\* get_aggregated_data returns n points, the i-th of which is named i.  The
\* trend module is called once when the operation gets as far as line 386,
\* with the slice of line 390.
AnalyzeTrend(u, hasStats, n) ==
    LET self == DBInit(environ, INFLUXDB_BUCKET)
        r    == RunSteps(u, LLMCode(u).analyze_trend, 1,
                         IF hasStats /\ n > 0 THEN "row" ELSE "empty")
        invoked == r.status = "returned" /\ r.at = "__trend_module"
    IN  /\ answer' =
              IF self.state = "raised"
              THEN [utils |-> u, op |-> "analyze_trend", status |-> "ValueError",
                    at |-> self.error, closes |-> 0, hasStats |-> hasStats,
                    series |-> n, invoked |-> 0, passed |-> <<>>]
              ELSE [utils |-> u, op |-> "analyze_trend", status |-> r.status,
                    at |-> r.at, closes |-> ExitCalls(u), hasStats |-> hasStats,
                    series |-> n,
                    invoked |-> IF invoked THEN 1 ELSE 0,
                    passed |-> IF invoked THEN Slice([i \in 1..n |-> i], TrendPoints)
                               ELSE <<>>]
        /\ err' = IF self.state = "raised" THEN "ValueError"
                  ELSE IF r.status = "returned" THEN "none" ELSE r.status
        /\ UNCHANGED <<rng, seededBy, now, catalog, out, gen, made, heapVars,
                       dbVars, collectVars, response, text, back, moreVars>>

---------------------------------------------------------------------------
(* The sample printed by mock_obd.py run as a program *)

\* sample_data = mock_obd_data(); print(json.dumps(sample_data, indent=2))
\* (lines 241-242).  The text printed has not been read yet.
PrintSample(lag) ==
    /\ now + lag <= MaxTime
    /\ LET r == MockObdData(catalog, rng, now, now + lag)
       IN  /\ rng' = r.rng
           /\ out' = Returned(r)
           /\ err' = Raised(r)
           /\ text' = IF r.status = "ok" THEN Dumps(PyDict(r.data)) ELSE NoText
    /\ back' = NoValue
    /\ seededBy' = NoSeed
    /\ now' = now + lag
    /\ UNCHANGED <<catalog, gen, made, heapVars, dbVars, collectVars, response,
                   answer, moreVars>>

\* A reader of the printed text runs json.loads on it.
ReadBack ==
    /\ text # NoText
    /\ back' = Loads(text)
    /\ UNCHANGED <<rng, seededBy, now, catalog, out, err, gen, made, heapVars,
                   dbVars, collectVars, response, answer, text, moreVars>>

---------------------------------------------------------------------------
(* The collector *)

\* collect_and_store_obd_data() is called with OBD_DURATION = seconds and
\* OBD_INTERVAL = interval: DB() is constructed and entered and the stream is
\* made (lines 173-185).  A ValueError of DB() ends the function in the
\* handler of line 225.
CollectStart(seconds, interval) ==
    /\ loop.pc = "idle"
    /\ gen = NoStream
    /\ made < MaxStreams
    /\ \E self \in {DBInit(environ, INFLUXDB_BUCKET)} :
          IF self.state = "raised"
          THEN /\ db' = self
               /\ loop' = [loop EXCEPT !.pc = "ended", !.outcome = "error"]
               /\ UNCHANGED <<gen, made>>
          ELSE /\ db' = DBEnter(self)
               /\ loop' = [loop EXCEPT !.pc = "running"]
               /\ gen' = NewStream(seconds * TicksPerSec, interval)
               /\ made' = made + 1
    /\ err' = "none"
    /\ UNCHANGED <<rng, seededBy, now, catalog, out, heapVars, environ,
                   INFLUXDB_BUCKET, reading, written, edgeVars>>

\* The for statement of line 183 asks the stream for its next snapshot, once
\* the body has dealt with the one before.
CollectNext(late, lagC, lag1, lag2) ==
    /\ loop.pc = "running"
    /\ gen.pc \in {"created", "suspended"}
    /\ loop.reading_count = gen.n
    /\ StreamNext(late, lagC, lag1, lag2)

\* A loop body whose failed store_to_db ends the collection.
CollectBodyAborting(fail) ==
    /\ loop.pc = "running"
    /\ gen.pc = "suspended"
    /\ loop.reading_count < gen.n
    /\ fail <= Len(Points(out.data))
    /\ \E r \in {StoreToDb(out.data, fail)} :
          /\ reading' = r.obd_reading
          /\ written' = r.written
          /\ loop' = [loop EXCEPT
                         !.pc = IF r.raised THEN "ended" ELSE @,
                         !.outcome = IF r.raised THEN "error" ELSE @,
                         !.reading_count = @ + 1,
                         !.raised = r.raised,
                         !.write_errors = IF r.raised THEN @ + 1 ELSE @]
    /\ err' = "none"
    /\ UNCHANGED <<rng, seededBy, now, catalog, out, gen, made, heapVars, dbVars,
                   edgeVars>>

\* The body of the loop (lines 186-218) on the snapshot just yielded:
\* reading_count += 1 and store_to_db(db, obd_reading), whose exception is
\* logged and skipped over; the rest only logs.
CollectBody(fail) ==
    /\ loop.pc = "running"
    /\ gen.pc = "suspended"
    /\ loop.reading_count < gen.n
    /\ fail <= Len(Points(out.data))
    /\ \E r \in {StoreToDb(out.data, fail)} :
          /\ reading' = r.obd_reading
          /\ written' = r.written
          /\ loop' = [loop EXCEPT
                         !.reading_count = @ + 1,
                         !.raised = r.raised,
                         !.write_errors = IF r.raised THEN @ + 1 ELSE @]
    /\ err' = "none"
    /\ UNCHANGED <<rng, seededBy, now, catalog, out, gen, made, heapVars, dbVars,
                   edgeVars>>

\* The stream is exhausted or has raised: the with statement closes the
\* connection, and the function logs its end (lines 220-226).
CollectEnd ==
    /\ loop.pc = "running"
    /\ gen.pc \in {"done", "failed"}
    /\ db' = DBExit(db)
    /\ loop' = [loop EXCEPT !.pc = "ended",
                            !.outcome = IF gen.pc = "done" THEN "completed"
                                        ELSE "error"]
    /\ gen' = NoStream
    /\ err' = "none"
    /\ UNCHANGED <<rng, seededBy, now, catalog, out, made, heapVars, environ,
                   INFLUXDB_BUCKET, reading, written, edgeVars>>

\* KeyboardInterrupt while the collector runs.  It is no Exception, so the
\* handler of line 191 lets it pass: the with statement closes the connection
\* and the handler of line 223 logs it.  If it comes while the body has a
\* snapshot to store, reading_count has been counted and the first k writes
\* of store_to_db have been made; otherwise it comes in the stream (in its
\* pause) and k = 0.
CollectInterrupt(k) ==
    /\ loop.pc = "running"
    /\ IF gen.pc = "suspended" /\ loop.reading_count < gen.n
       THEN /\ k < Len(Points(out.data))
            /\ reading' = out.data
            /\ written' = SubSeq(Points(out.data), 1, k)
            /\ loop' = [loop EXCEPT !.pc = "ended", !.outcome = "interrupted",
                                    !.reading_count = @ + 1, !.raised = TRUE]
       ELSE /\ k = 0
            /\ loop' = [loop EXCEPT !.pc = "ended", !.outcome = "interrupted"]
            /\ UNCHANGED <<reading, written>>
    /\ db' = DBExit(db)
    /\ gen' = NoStream
    /\ err' = "none"
    /\ UNCHANGED <<rng, seededBy, now, catalog, out, made, heapVars, environ,
                   INFLUXDB_BUCKET, edgeVars>>

\* The state k draws leave the random source in, from each state: k draws
\* are k \div 2 draws twice, and one more if k is odd.
RECURSIVE Draws(_)
Draws(k) ==
    IF k = 0 THEN [s \in 0..(RngMod - 1) |-> s]
    ELSE IF k % 2 = 0
         THEN LET half == Draws(k \div 2)
              IN  [s \in 0..(RngMod - 1) |-> half[half[s]]]
         ELSE LET rest == Draws(k - 1)
              IN  [s \in 0..(RngMod - 1) |-> RngStep(rest[s])]

\* range(1000) of src/app.py line 213
ChartPoints == 1000

\* Lines 210-214 without the seed call: the 1000 draws go on from the state s
\* the source is in.
SparklineDataUnseeded(s) ==
    [rng  |-> Draws(ChartPoints)[s],
     data |-> [i \in 1..MaxChart |-> Raw(RngStepN(s, i))]]

\* Lines 210-214: random.seed(73), then 1000 calls of random.expovariate(1/3),
\* each of which draws once from the source and maps the draw u to
\* -3 * log(1 - u), an increasing function of u; a point is kept as its u,
\* and of the 1000 the first MaxChart.  s is the state the source was in.
SparklineData(s) ==
    [rng  |-> Draws(ChartPoints)[SeedState(73)],
     data |-> [i \in 1..MaxChart |-> Raw(RngStepN(SeedState(73), i))]]

\* What of a snapshot does not come from the clock.
Unstamped(data) == [k \in SampledKeys |-> data[k]]

\* MainApp.refresh_query, fired by query_timer: the chart is redrawn and the
\* message line shows datetime.now().
RefreshQuery ==
    /\ dash.refreshes < MaxRefreshes
    /\ LET c == SparklineData(rng)
       IN  /\ rng' = c.rng
           /\ dash' = [dash EXCEPT
                 !.refreshes = @ + 1,
                 !.after = @ \cup {c.rng},
                 !.charts = @ \cup {c.data},
                 !.message = now,
                 !.shown = <<>>,
                 !.before = IF dash.refreshes > 0 /\ Len(dash.shown) > Len(@)
                            THEN dash.shown ELSE @]
    /\ seededBy' = NoSeed
    /\ err' = "none"
    /\ UNCHANGED <<now, catalog, out, gen, made, heapVars, dbVars,
                   collectVars, response, answer, text, back, stats, console>>

\* MainApp.refresh_metrics, fired by metrics_timer: sample_data =
\* mock_obd_data() and the widgets are updated from it.
RefreshMetrics(lag) ==
    /\ now + lag <= MaxTime
    /\ Len(dash.shown) < MaxShown
    /\ LET r == MockObdData(catalog, rng, now, now + lag)
       IN  /\ rng' = r.rng
           /\ out' = Returned(r)
           /\ err' = Raised(r)
           /\ dash' = IF r.status = "ok"
                      THEN [dash EXCEPT !.shown = Append(@, Unstamped(r.data))]
                      ELSE dash
    /\ seededBy' = NoSeed
    /\ now' = now + lag
    /\ UNCHANGED <<catalog, gen, made, heapVars, dbVars, collectVars,
                   response, answer, text, back, stats, console>>

\* OBDStatus (src/tests/main.py lines 84-99)
NOT_CONNECTED == "Not Connected"

Statuses == {NOT_CONNECTED, "ELM Connected", "OBD Connected", "Car Connected"}

\* sleep(1), in seconds
SleepSeconds == 1

\* The loop left whatever the status is.
LoopAgainNever(status) == FALSE

\* Line 68: the condition of the while loop.
LoopAgain(status) == status = NOT_CONNECTED

\* A count that stops at MaxPolls.
UpTo(n) == IF n > MaxPolls THEN MaxPolls ELSE n

\* Lines 62-66: conn = obd.OBD(), and conn = obd.OBD(OBD_DEVICE_PORT) when
\* the port is configured; the connection object the program keeps has the
\* status s.
ConsoleConnect(port, s) ==
    /\ console.pc = "none"
    /\ console' = [pc |-> "check", port |-> port,
                   created |-> IF port THEN 2 ELSE 1,
                   conn |-> IF port THEN 2 ELSE 1,
                   status |-> s, up |-> s # NOT_CONNECTED,
                   observed |-> "none", logged |-> s,
                   checks |-> 0, slept |-> 0]
    /\ UNCHANGED <<rng, seededBy, now, catalog, out, err, gen, made, heapVars,
                   dbVars, collectVars, response, answer, text, back, stats,
                   dash>>

\* The adapter: the status of the connection object becomes s.
AdapterChange(s) ==
    /\ console.pc \in {"check", "sleep", "connected"}
    /\ s # console.status
    /\ console' = [console EXCEPT !.status = s,
                                  !.up = @ \/ s # NOT_CONNECTED]
    /\ UNCHANGED <<rng, seededBy, now, catalog, out, err, gen, made, heapVars,
                   dbVars, collectVars, response, answer, text, back, stats,
                   dash>>

\* Line 68: conn.status() is read and compared; lines 69 and 73.
ConsoleCheck ==
    /\ console.pc = "check"
    /\ console' = [console EXCEPT
          !.observed = console.status,
          !.checks = UpTo(@ + 1),
          !.pc = IF LoopAgain(console.status) THEN "sleep" ELSE "connected"]
    /\ UNCHANGED <<rng, seededBy, now, catalog, out, err, gen, made, heapVars,
                   dbVars, collectVars, response, answer, text, back, stats,
                   dash>>

\* Lines 70-71: sleep(1), then the status is read for the log.
ConsoleSleep ==
    /\ console.pc = "sleep"
    /\ console' = [console EXCEPT !.slept = UpTo(@ + SleepSeconds),
                                  !.logged = console.status,
                                  !.pc = "check"]
    /\ UNCHANGED <<rng, seededBy, now, catalog, out, err, gen, made, heapVars,
                   dbVars, collectVars, response, answer, text, back, stats,
                   dash>>

\* Lines 75-83: the status is read twice more for the log, the menu is built
\* around conn and shown.
ConsoleShowMenu ==
    /\ console.pc = "connected"
    /\ console' = [console EXCEPT !.logged = console.status, !.pc = "menu"]
    /\ UNCHANGED <<rng, seededBy, now, catalog, out, err, gen, made, heapVars,
                   dbVars, collectVars, response, answer, text, back, stats,
                   dash>>

\* The steps of the program itself.
ConsoleProgram ==
    \/ \E port \in BOOLEAN, s \in Statuses : ConsoleConnect(port, s)
    \/ ConsoleCheck
    \/ ConsoleSleep
    \/ ConsoleShowMenu

---------------------------------------------------------------------------
(* Specifications *)

\* The snapshot generator under its callers: the dashboard's timers seed the
\* random source and call mock_obd_data().
Next ==
    \/ \E n \in Seeds : Seed(n)
    \/ Tick
    \/ \E lag \in 0..MaxLag : CallMockObdData(lag)

Spec == Init /\ [][Next]_vars

\* The stream adapter under a consumer that calls mock_obd_stream(), advances
\* the generator object and drops it, again and again: every read of the
\* clock may lag, sleep may return late, the consumer may dawdle.
NextStream ==
    \/ \E d \in Durations, i \in Intervals : StreamCreate(d, i)
    \/ \E late \in 0..MaxJitter, lagC, lag1, lag2 \in 0..MaxLag :
          StreamNext(late, lagC, lag1, lag2)
    \/ StreamDrop
    \/ Tick

\* mock_obd.py never seeds the random source: the stream is followed from one
\* of the states the interpreter may leave it in.
InitStream == Init /\ rng = SeedState(73)

SpecStream == InitStream /\ [][NextStream]_vars

\* The generator over a catalog of any size up to the program's: dtc_pool cut
\* to its first n codes.
InitCatalog ==
    /\ rng \in 0..(RngMod - 1)
    /\ seededBy = NoSeed
    /\ now = 0
    /\ catalog \in {SubSeq(dtc_pool, 1, n) : n \in 0..Len(dtc_pool)}
    /\ out = NoResult
    /\ err = "none"
    /\ gen = NoStream
    /\ made = 0
    /\ InitBeyond

SpecCatalog == InitCatalog /\ [][Next]_vars

\* A caller that keeps the snapshots it is given and writes to them, between
\* calls and after them, in a program that seeds the random source now and
\* then.
NextHeap ==
    \/ \E n \in Seeds : Seed(n)
    \/ CallAndKeep
    \/ \E i \in 1..MaxHeld : MutateSnapshot(i)
    \/ \E i \in 1..MaxHeld : MutateDtcs(i)
    \/ \E i \in 1..MaxHeld, j \in 1..3 : MutateDtc(i, j)

SpecHeap == Init /\ [][NextHeap]_vars

\* Whole seconds OBD_DURATION may hold
Seconds == {0, 1, 2}

\* The collector in any environment, against a database whose writes may
\* fail.  Nothing it stores depends on the clock, which is taken to advance
\* by the pauses of the stream alone.
NextStore ==
    \/ \E seconds \in Seconds, i \in Intervals : CollectStart(seconds, i)
    \/ CollectNext(0, 0, 0, 0)
    \/ \E fail \in 0..MaxWrites : CollectBody(fail)
    \/ CollectEnd

InitStore ==
    /\ rng \in 0..(RngMod - 1)
    /\ seededBy = NoSeed
    /\ now = 0
    /\ catalog = dtc_pool
    /\ out = NoResult
    /\ err = "none"
    /\ gen = NoStream
    /\ made = 0
    /\ InitHeap
    /\ \E e \in [EnvNames -> EnvValues] : InitDB(e)
    /\ InitCollect
    /\ InitEdge

SpecStore == InitStore /\ [][NextStore]_vars

\* DB objects made and used in any environment.  The program does not write
\* to the environment after utils.py has been imported.
NextConfig == Construct \/ Enter \/ Exit

InitConfig ==
    /\ rng \in 0..(RngMod - 1)
    /\ seededBy = NoSeed
    /\ now = 0
    /\ catalog = dtc_pool
    /\ out = NoResult
    /\ err = "none"
    /\ gen = NoStream
    /\ made = 0
    /\ InitHeap
    /\ \E e \in [EnvNames -> EnvValues] : InitDB(e)
    /\ InitCollect
    /\ InitEdge

SpecConfig == InitConfig /\ [][NextConfig]_vars

\* The API serving requests, in any environment and whatever the database
\* answers, while the clock runs.
NextApi ==
    \/ \E q \in QueryOutcomes, s \in StoredStates : GetObdData(q, s)
    \/ Tick

\* Every setting is there, or one of them is not.
InitApi ==
    /\ rng \in 0..(RngMod - 1)
    /\ seededBy = NoSeed
    /\ now = 0
    /\ catalog = dtc_pool
    /\ out = NoResult
    /\ err = "none"
    /\ gen = NoStream
    /\ made = 0
    /\ InitHeap
    /\ \E e \in {Configured} \cup {[Configured EXCEPT ![n] = None] : n \in EnvNames} :
          InitDB(e)
    /\ InitCollect
    /\ InitEdge

SpecApi == InitApi /\ [][NextApi]_vars

\* Programs that use the LLM layer of either file, one operation after
\* another, in any environment, with the API beside them.
NextLLM ==
    \/ \E u \in Utils, op \in Operations, data \in DataOutcomes : LLMRun(u, op, data)
    \/ \E q \in QueryOutcomes, s \in StoredStates : GetObdData(q, s)

SpecLLM == InitApi /\ [][NextLLM]_vars

\* Samples printed as JSON and read back, the random source seeded now and
\* then, while the clock runs.
NextJson ==
    \/ \E n \in Seeds : Seed(n)
    \/ Tick
    \/ \E lag \in 0..MaxLag : PrintSample(lag)
    \/ ReadBack

SpecJson == Init /\ [][NextJson]_vars

\* The collector as in SpecStore, with a user who may interrupt it.
NextCollect ==
    \/ \E seconds \in Seconds, i \in Intervals : CollectStart(seconds, i)
    \/ CollectNext(0, 0, 0, 0)
    \/ \E fail \in 0..MaxWrites : CollectBody(fail)
    \/ CollectEnd
    \/ \E k \in 0..(MaxWrites - 1) : CollectInterrupt(k)

SpecCollect == InitStore /\ [][NextCollect]_vars

\* The two status routes of the web API, in any of the environments of
\* InitApi and whatever the database answers, while the clock runs.
NextWeb ==
    \/ \E q \in QueryOutcomes, s \in StoredStates : GetObdData(q, s)
    \/ \E raises \in BOOLEAN, history \in Histories : GetMilStatus(raises, history)
    \/ Tick

SpecWeb == InitApi /\ [][NextWeb]_vars

\* A client that opens a connection and asks for the statistics of a field.
NextStats == Construct \/ Enter \/ Exit \/ GetFieldStats

\* The field asked for and the values the database holds for it are any.
InitStats ==
    /\ rng = SeedState(73)
    /\ seededBy = NoSeed
    /\ now = 0
    /\ catalog = dtc_pool
    /\ out = NoResult
    /\ err = "none"
    /\ gen = NoStream
    /\ made = 0
    /\ InitHeap
    /\ InitDB(Configured)
    /\ InitCollect
    /\ response = NoResponse
    /\ answer = NoAnswer
    /\ text = NoText
    /\ back = NoValue
    /\ console = NoConsole
    /\ dash = NoDash
    /\ \E field \in FloatFields, n \in 0..MaxValues :
          \E values \in [1..n -> FloatValues] :
              stats = [field |-> field, query |-> values, result |-> NoStats]

SpecStats == InitStats /\ [][NextStats]_vars

\* Programs that ask the LLM layer of either file for the trend of a field,
\* in any of the environments of InitApi, while the clock runs.
NextTrend ==
    \/ \E u \in Utils, hasStats \in BOOLEAN, n \in SeriesLengths :
          AnalyzeTrend(u, hasStats, n)
    \/ Tick

SpecTrend == InitApi /\ [][NextTrend]_vars

\* duration_seconds of any sign, in ticks
AnyDurations == Durations \cup {0 - 1, 0 - 2}

\* The stream adapter as in SpecStream, for durations of any sign.
NextPaced ==
    \/ \E d \in AnyDurations, i \in Intervals : StreamCreate(d, i)
    \/ \E late \in 0..MaxJitter, lagC, lag1, lag2 \in 0..MaxLag :
          StreamNext(late, lagC, lag1, lag2)
    \/ StreamDrop
    \/ Tick

SpecPaced == InitStream /\ [][NextPaced]_vars

\* The terminal dashboard: its two timers fire in any order on one event
\* loop, whatever has drawn from the random source since line 178.
NextDash ==
    \/ RefreshQuery
    \/ \E lag \in 0..MaxLag : RefreshMetrics(lag)
    \/ Tick

SpecDash == Init /\ [][NextDash]_vars

\* The OBD console program and its adapter, whose status may change at any
\* time; the program itself keeps running.
NextConsole ==
    \/ ConsoleProgram
    \/ \E s \in Statuses : AdapterChange(s)

InitConsole == Init /\ rng = SeedState(73)

SpecConsole ==
    InitConsole /\ [][NextConsole]_vars /\ WF_vars(ConsoleProgram)

---------------------------------------------------------------------------
(* Properties *)

\* Some generator object has run line 101.
Started == gen.pc \in {"suspended", "done", "failed"}

\* C1.  Every snapshot mock_obd_data() returns has each numeric field inside
\* its closed interval (floats after rounding, in hundredths; distance in
\* tenths).
C1_FieldsInRange ==
    out.status = "ok" =>
        LET d == out.data
        IN  /\ d.rpm \in 700..3500
            /\ d.speed \in 0..120
            /\ d.throttle_position \in 0..10000
            /\ d.engine_load \in 1000..9000
            /\ d.coolant_temp \in 75..105
            /\ d.intake_temp \in 20..60
            /\ d.oil_temp \in 80..110
            /\ d.fuel_level \in 1000..9500
            /\ d.fuel_pressure \in 20000..40000
            /\ d.fuel_rate \in 50..1500
            /\ d.maf \in 200..2500
            /\ d.intake_pressure \in 3000..10000
            /\ d.battery_voltage \in 1250..1450
            /\ d.ambient_temp \in 15..35
            /\ d.barometric_pressure \in 9500..10500
            /\ d.distance \in 0..500000
            /\ d.runtime \in 0..10000

\* A snapshot whose distance was rounded up to the upper end of its interval.
C1_Witness ==
    /\ out.status = "ok"
    /\ out.data.distance = 500000

\* C2.  In every snapshot mil_status is true if and only if dtcs is non-empty.
C2_MilIffDtcs ==
    out.status = "ok" => (out.data.mil_status <=> Len(out.data.dtcs) > 0)

C2_Witness ==
    out.status = "ok" /\ out.data.mil_status /\ Len(out.data.dtcs) > 0

\* C3.  In every snapshot dtcs holds only entries of the fixed 10-code
\* catalog, holds no code twice and has at most 3 entries.
C3_DtcsDistinctFromCatalog ==
    out.status = "ok" =>
        LET l == out.data.dtcs
        IN  /\ Len(dtc_pool) = 10
            /\ \A i \in 1..Len(l) : \E j \in 1..Len(dtc_pool) : l[i] = dtc_pool[j]
            /\ \A i, j \in 1..Len(l) : i # j => l[i].code # l[j].code
            /\ Len(l) <= 3

C3_Witness ==
    out.status = "ok" /\ Len(out.data.dtcs) = 3

C5_ExactCount ==
    (/\ gen.pc = "done"
     /\ gen.exact
     /\ gen.interval > 0
     /\ gen.duration > 0
     /\ gen.duration % gen.interval = 0)
    => gen.n = gen.duration \div gen.interval

C5_Witness ==
    /\ gen.pc = "done"
    /\ gen.exact
    /\ gen.duration = 3 * gen.interval
    /\ gen.n = 3

\* One generator object yields a snapshot after an earlier one.
NextYield ==
    /\ gen.pc = "suspended"
    /\ gen'.pc = "suspended"
    /\ gen'.n = gen.n + 1

\* C6 as claimed.  Of two consecutive snapshots of a stream, the later one's
\* timestamp and unix_timestamp are greater than the earlier one's.
C6_StrictlyIncreasing ==
    [][NextYield =>
        /\ gen'.last.timestamp > gen.last.timestamp
        /\ gen'.last.unix_timestamp > gen.last.unix_timestamp]_vars

\* C6 as amended.  Of two consecutive snapshots of a stream, the later one's
\* timestamp and unix_timestamp are never smaller; the timestamp is greater
\* when the interval is positive, the unix_timestamp when the interval is a
\* second or more.
C6_IncreasingByInterval ==
    [][NextYield =>
        /\ gen'.last.timestamp >= gen.last.timestamp
        /\ gen'.last.unix_timestamp >= gen.last.unix_timestamp
        /\ gen.interval > 0 => gen'.last.timestamp > gen.last.timestamp
        /\ gen.interval >= TicksPerSec =>
              gen'.last.unix_timestamp > gen.last.unix_timestamp]_vars

C6_Witness ==
    /\ gen.pc = "suspended"
    /\ gen.n >= 2
    /\ gen.interval > 0
    /\ gen.interval < TicksPerSec

\* C7 as claimed.  A stream ends by the clock reaching its deadline, and no
\* snapshot is yielded at or after the deadline.
C7_NothingAtDeadline ==
    /\ gen.pc # "failed"
    /\ (Started /\ gen.n > 0) => gen.last.timestamp < gen.end_time

\* C7 as amended.  Every snapshot is yielded by an iteration whose loop
\* condition read the clock before the deadline; a stream is exhausted only
\* by a read at or after the deadline; with a positive interval it yields at
\* most ceil(duration / interval) snapshots; the one other way it ends is the
\* ValueError of time.sleep for a negative interval, after its first snapshot.
C7_ChecksBeforeDeadline ==
    /\ gen.pc = "suspended" => gen.checked < gen.end_time
    /\ gen.pc = "done" => gen.checked >= gen.end_time
    /\ (Started /\ gen.n > 0 /\ gen.interval > 0) =>
          (gen.n - 1) * gen.interval < gen.duration
    /\ gen.pc = "failed" => (gen.interval < 0 /\ gen.n = 1)

\* A fully consumed stream whose last snapshot is stamped at the deadline or later.
C7_Witness ==
    /\ gen.pc = "done"
    /\ gen.n > 1
    /\ gen.last.timestamp >= gen.end_time

\* C8 as claimed.  The deadline of a stream is the time of the call of
\* mock_obd_stream plus duration_seconds.
C8_DeadlineFromCall ==
    Started => gen.end_time = gen.created + gen.duration

\* C8 as amended.  The deadline of a stream is the time of its first next()
\* plus duration_seconds, whatever streams were created, consumed or
\* abandoned before it.
C8_DeadlineFromFirstNext ==
    Started => gen.end_time = gen.started + gen.duration

\* A second stream, first advanced some time after its creation.
C8_Witness ==
    /\ made >= 2
    /\ Started
    /\ gen.started > gen.created

\* mock_obd_data() is called right after random.seed(n), and so was the call before it.
RepeatedSeededCall ==
    /\ seededBy # NoSeed
    /\ seededBy' = NoSeed
    /\ out.status = "ok"
    /\ out.seed = seededBy

\* C9 as claimed.  With the random source re-seeded to the same value before
\* each, two consecutive calls return identical snapshots.
C9_IdenticalSnapshots ==
    [][RepeatedSeededCall => out'.data = out.data]_vars

\* C9 as amended.  With the random source re-seeded to the same value before
\* each, two consecutive calls return snapshots that agree on every key but
\* timestamp and unix_timestamp.
C9_IdenticalSamples ==
    [][RepeatedSeededCall =>
        /\ out'.status = "ok"
        /\ \A k \in SampledKeys : out'.data[k] = out.data[k]]_vars

C9_Witness ==
    /\ out.status = "ok"
    /\ out.again
    /\ out.data.timestamp > 0

\* C10.  mock_obd_data() never raises, whatever the state of the random source.
C10_NeverFails ==
    /\ err = "none"
    /\ out.status \in {"none", "ok"}

C10_Witness ==
    /\ out.status = "ok"
    /\ out.data.dtc_count = 3
    /\ err = "none"

\* C11.  Writing to a snapshot, to its dtcs list or to one of its DTC entries
\* changes no other snapshot the caller keeps, and every call draws from the
\* catalog as the source lists it.
C11_NoSharedState ==
    \A j \in 1..Len(held) :
        /\ fresh[j].catalog = dtc_pool
        /\ j \notin mutated => Deep(heap, held[j]) = fresh[j].snapshot

\* A DTC entry of the first snapshot has been overwritten, and the second
\* snapshot, untouched, reports the fault the entry stood for.
C11_Witness ==
    /\ Len(held) = 2
    /\ mutated = {1}
    /\ \E a \in 1..Len(fresh[1].snapshot.dtcs), b \in 1..Len(fresh[2].snapshot.dtcs) :
          /\ fresh[1].snapshot.dtcs[a] = fresh[2].snapshot.dtcs[b]
          /\ Len(Deep(heap, held[1]).dtcs) >= a
          /\ Deep(heap, held[1]).dtcs[a].code = "P0000"

\* The collector holds the snapshot last yielded and has run its body on it.
Processed ==
    /\ loop.reading_count > 0
    /\ gen # NoStream => loop.reading_count = gen.n

\* C12.  The reading the collector's loop holds after store_to_db has run on
\* it, whether its writes succeeded or failed, is the snapshot as
\* mock_obd_data() returned it, key for key.
C12_ReadingUnchanged == Processed => reading = out.data

\* A reading with DTCs has been through store_to_db with a failed write.
C12_Witness ==
    /\ Processed
    /\ loop.raised
    /\ Len(written) >= 1
    /\ Len(reading.dtcs) >= 2

\* The obd_readings point of the reading the collector has just stored.
StoredReadingPoint == written[1]

\* store_to_db has run on the reading and its first write succeeded.
ReadingStored == Processed /\ Len(written) >= 1

\* C13 as claimed.  The obd_readings point carries exactly the tags
\* vehicle_id and mil_status and one field for every numeric attribute of the
\* snapshot, each holding the snapshot's value for the key of the same name.
C13_FieldPerNumericKey ==
    ReadingStored =>
        /\ StoredReadingPoint.measurement = "obd_readings"
        /\ DOMAIN StoredReadingPoint.tags = {"vehicle_id", "mil_status"}
        /\ DOMAIN StoredReadingPoint.fields = NumericKeys
        /\ \A k \in DOMAIN StoredReadingPoint.fields :
              StoredReadingPoint.fields[k] = reading[k]

\* C13 as amended.  The obd_readings point carries exactly the tags
\* vehicle_id and mil_status (the text of the boolean) and one field for every
\* numeric attribute of the snapshot but unix_timestamp, each holding the
\* snapshot's value for the key of the same name.
C13_FieldPerSensorKey ==
    ReadingStored =>
        /\ StoredReadingPoint.measurement = "obd_readings"
        /\ DOMAIN StoredReadingPoint.tags = {"vehicle_id", "mil_status"}
        /\ StoredReadingPoint.tags.vehicle_id = VEHICLE_ID
        /\ StoredReadingPoint.tags.mil_status = Str(reading.mil_status)
        /\ DOMAIN StoredReadingPoint.fields = NumericKeys \ {"unix_timestamp"}
        /\ \A k \in DOMAIN StoredReadingPoint.fields :
              StoredReadingPoint.fields[k] = reading[k]

\* A reading with an active fault has been stored.
C13_Witness ==
    /\ ReadingStored
    /\ reading.mil_status
    /\ reading.intake_temp # reading.oil_temp
    /\ StoredReadingPoint.fields.dtc_count >= 1

\* The places in Required of the variables that are missing or empty.
Missing == {i \in 1..Len(Required) : Falsy(Getenv(environ, Required[i]))}

\* C14.  DB() raises ValueError if and only if one of the four required
\* variables is missing or empty; the error names the first of them in the
\* order URL, TOKEN, ORG, BUCKET, and no client exists when it is raised.
C14_ConfigErrorFirst ==
    db.state # "none" =>
        IF Missing # {}
        THEN /\ db.state = "raised"
             /\ err = "ValueError"
             /\ db.error = Required[CHOOSE i \in Missing : \A j \in Missing : i <= j]
             /\ db.client = None
        ELSE db.state \in {"constructed", "open", "closed"}

\* DB() has raised for the organisation while the bucket is empty too.
C14_Witness ==
    /\ db.state = "raised"
    /\ db.error = "INFLUXDB_ORG"
    /\ Getenv(environ, "INFLUXDB_BUCKET") = ""
    /\ Getenv(environ, "INFLUXDB_URL") = "set"

\* C15.  Whenever /api/obd-data answers with something other than the stored
\* latest reading, the answer is generator output: a mapping with the key
\* set of a snapshot whose sensor values lie in the generator's intervals.
C15_FallbackIsGeneratorOutput ==
    response.source = "mock" =>
        /\ DOMAIN response.body = DOMAIN KeyType
        /\ \A k \in DOMAIN GeneratorRange :
              response.body[k] \in GeneratorRange[k].lo..GeneratorRange[k].hi

\* C16.  Under `with LLM() as llm', llm.query(question, hours) fetches the
\* recent readings and returns the model's analysis, and every operation of
\* LLM (query, diagnose, analyze_trend, get_maintenance_advice) calls DB
\* methods and modules that exist, with parameters that match, so that none
\* ends in an internal error.
C16_NoInternalError ==
    /\ answer.status \notin {"none", "ValueError"} => answer.status = "returned"
    /\ answer.status = "returned" /\ answer.op = "query" =>
          answer.at = "__query_module"

\* C17.  A snapshot written as JSON and read back has the same key set, and
\* under every key a value equal to the snapshot's and of the same type (int,
\* float, bool, str, list of dicts of str).
C17_JsonRoundTrip ==
    back # NoValue =>
        /\ back.type = "dict"
        /\ DOMAIN back.items = DOMAIN out.data
        /\ \A k \in DOMAIN out.data : Same(back.items[k], PyValue(k, out.data[k]))

\* A snapshot read back that holds an active DTC and a float without
\* fraction, written with ".0".
C17_Witness ==
    /\ back # NoValue
    /\ Len(out.data.dtcs) > 0
    /\ \E k \in DOMAIN out.data :
          /\ KeyType[k] = "float"
          /\ out.data[k] % Pow10(Places(k)) = 0
          /\ Contains(".0", text.members[k].tok)

\* The DTC events among the points the last store_to_db wrote.
DtcEvents == {i \in 1..Len(written) : written[i].measurement = "obd_dtc_events"}

\* store_to_db has run on the reading and none of its writes failed.
StoredWhole == Processed /\ ~loop.raised

\* C18.  dtc_count is the length of dtcs: 0 when mil_status is false, 1 to 3
\* when it is true; and store_to_db, which tests dtc_count > 0, writes DTC
\* events exactly when dtcs is non-empty.
C18_CountGuardsDtcEvents ==
    /\ out.status = "ok" =>
          /\ out.data.dtc_count = Len(out.data.dtcs)
          /\ ~out.data.mil_status => out.data.dtc_count = 0
          /\ out.data.mil_status => out.data.dtc_count \in 1..3
    /\ StoredWhole => (DtcEvents # {} <=> Len(reading.dtcs) > 0)

\* A reading with a single DTC has been stored, with its event.
C18_Witness ==
    /\ StoredWhole
    /\ reading.mil_status
    /\ reading.dtc_count = 1
    /\ DtcEvents # {}

\* C19.  A store_to_db none of whose writes fails makes 1 + len(dtcs) writes:
\* the obd_readings point first, then one obd_dtc_events point for each DTC in
\* the order of the list, tagged with its code and carrying the reading's
\* rpm, speed, coolant_temp and engine_load.
C19_OneWritePerDtcInOrder ==
    StoredWhole =>
        /\ Len(written) = 1 + Len(reading.dtcs)
        /\ written[1].measurement = "obd_readings"
        /\ \A i \in 1..Len(reading.dtcs) :
              /\ written[i + 1].measurement = "obd_dtc_events"
              /\ written[i + 1].tags.dtc_code = reading.dtcs[i].code
              /\ \A k \in {"rpm", "speed", "coolant_temp", "engine_load"} :
                    written[i + 1].fields[k] = reading[k]

\* A reading with three DTCs has been stored.
C19_Witness ==
    /\ StoredWhole
    /\ Len(reading.dtcs) = 3
    /\ Len(written) = 4

\* sub occurs in str in some mix of upper and lower case.
ContainsAnyCase(sub, str) ==
    \E i \in 1..(Len(str) - Len(sub) + 1) :
        \A j \in 1..Len(sub) :
            \E a \in 1..Len(LowerCase) :
                /\ SubSeq(sub, j, j) \in {SubSeq(LowerCase, a, a), SubSeq(UpperCase, a, a)}
                /\ SubSeq(str, i + j - 1, i + j - 1)
                      \in {SubSeq(LowerCase, a, a), SubSeq(UpperCase, a, a)}

\* C20.  The severity tag of a DTC event is "high" if and only if the
\* description holds "misfire" in any mix of cases, and "medium" otherwise;
\* of the catalog exactly P0300 and P0301 are "high".
C20_SeverityByMisfire ==
    /\ \A i \in DtcEvents :
          /\ written[i].tags.severity \in {"high", "medium"}
          /\ written[i].tags.severity = "high"
                <=> ContainsAnyCase("misfire", written[i].fields.description)
          /\ written[i].tags.severity = "high"
                <=> written[i].tags.dtc_code \in {"P0300", "P0301"}
    /\ {dtc_pool[n].code : n \in {m \in 1..Len(dtc_pool) :
                                     Severity(dtc_pool[m].description) = "high"}}
          = {"P0300", "P0301"}

\* Events of both severities have been written for one reading.
C20_Witness ==
    /\ \E i \in DtcEvents : written[i].tags.severity = "high"
    /\ \E i \in DtcEvents : written[i].tags.severity = "medium"

\* C21.  A store_to_db that fails for one reading does not end the
\* collection: the loop goes on and keeps its stream, the function ends only
\* when every snapshot the stream yielded has been passed to store_to_db
\* (unless the user interrupts it), and an exhausted stream ends it as
\* completed whatever failed before.
C21_WriteErrorSkipped ==
    [][/\ (loop.pc = "running" /\ loop'.write_errors # loop.write_errors) =>
             /\ loop'.pc = "running"
             /\ gen' = gen
       /\ (loop.pc = "running" /\ loop'.pc = "ended"
             /\ loop'.outcome # "interrupted") =>
             /\ gen.pc \in {"done", "failed"}
             /\ loop.reading_count = gen.n
             /\ gen.pc = "done" => loop'.outcome = "completed"]_vars

\* A collection has completed in which a write failed and a later reading
\* was stored whole.
C21_Witness ==
    /\ loop.pc = "ended"
    /\ loop.outcome = "completed"
    /\ loop.write_errors >= 1
    /\ loop.reading_count >= 2
    /\ ~loop.raised

\* Line 221: the number logged as "readings stored to InfluxDB".
Reported == loop.reading_count

\* The readings whose store_to_db returned without exception.
Succeeded == loop.reading_count - loop.write_errors

\* C22.  When the collection completes, the number it reports as stored is
\* the number of readings whose store_to_db succeeded.
C22_ReportedAreStored == loop.outcome = "completed" => Reported = Succeeded

\* C23.  The collector opens the connection once, before the first write;
\* every write is made while it is open; leaving the loop, by whatever way,
\* closes it; and nothing is opened, closed or written after the close.
C23_OpenAroundWrites ==
    [][/\ db'.state = "open" /\ db.state # "open" =>
             /\ loop.pc = "idle"
             /\ loop'.pc = "running"
             /\ written = <<>>
       /\ written' # written => db.state = "open"
       /\ (loop.pc = "running" /\ loop'.pc = "ended") =>
             /\ db.state = "open"
             /\ db'.state = "closed"
       /\ loop.pc = "running" /\ loop'.pc = "running" => db'.state = "open"
       /\ db.state = "closed" => db' = db /\ written' = written]_vars

\* The user has interrupted a store_to_db after its first write, and the
\* connection is closed.
C23_Witness ==
    /\ loop.outcome = "interrupted"
    /\ db.state = "closed"
    /\ Len(written) >= 1
    /\ loop.raised

\* The keys of the mapping get_mock_data() returns.
MockDataKeys == DOMAIN GetMockData(0, 0).data

\* C24.  get_obd_data never ends in an error.  It returns the stored latest
\* reading when DB() is made and the lookup finds a record, and a generated
\* sample when the lookup finds nothing or raises, or when DB() raises the
\* ValueError of a missing setting.
C24_ObdDataNeverFails ==
    /\ err = "none"
    /\ response.route = "/api/obd-data" =>
          /\ response.lookup.outcome = "ValueError" <=> Missing # {}
          /\ response.lookup.outcome = "row" =>
                /\ response.source = "stored"
                /\ response.body = response.lookup.found[1]
          /\ response.lookup.outcome \in {"ValueError", "raises", "empty"} =>
                /\ response.source = "mock"
                /\ DOMAIN response.body = MockDataKeys
          /\ response.lookup.outcome \in {"ValueError", "raises", "empty", "row"}

\* A request has been answered with a sample because a setting is missing.
C24_Witness ==
    /\ response.route = "/api/obd-data"
    /\ response.lookup.outcome = "ValueError"
    /\ response.source = "mock"

\* C25.  get_mil_status returns the last entry of the history when it is not
\* empty and {status: False, codes: []} when it is; when the lookup (or DB())
\* raises it returns the fixed response with status True and code P0113.
C25_MilStatusByLookup ==
    response.route = "/api/mil-status" =>
        /\ response.lookup.outcome = "rows" =>
              /\ response.lookup.found # <<>>
              /\ response.body = response.lookup.found[Len(response.lookup.found)]
        /\ response.lookup.outcome = "empty" =>
              /\ response.body = [status |-> FALSE, codes |-> <<>>]
        /\ response.lookup.outcome \in {"raises", "ValueError"} =>
              /\ response.body.status = TRUE
              /\ response.body.codes = <<"P0113">>
        /\ response.lookup.outcome = "ValueError" <=> Missing # {}
        /\ response.lookup.outcome \in {"rows", "empty", "raises", "ValueError"}

\* A history of two entries has been answered with its second.
C25_Witness ==
    /\ response.route = "/api/mil-status"
    /\ Len(response.lookup.found) = 2
    /\ response.body = response.lookup.found[2]
    /\ response.body # response.lookup.found[1]

\* C26.  get_field_stats returns None when the query yields no values;
\* otherwise count is the number of values, min and max are the smallest and
\* the largest of them, and min <= mean <= max.
C26_MeanWithinBounds ==
    stats # NoStats /\ stats.result # NoStats =>
        /\ stats.query = <<>> <=> stats.result.status = "None"
        /\ stats.query # <<>> =>
              /\ stats.result.count = Len(stats.query)
              /\ \A i \in DOMAIN stats.query :
                    stats.result.min <= stats.query[i]
                    /\ stats.query[i] <= stats.result.max
              /\ \E i \in DOMAIN stats.query : stats.result.min = stats.query[i]
              /\ \E i \in DOMAIN stats.query : stats.result.max = stats.query[i]
              /\ stats.result.min <= stats.result.mean
              /\ stats.result.mean <= stats.result.max

\* C27.  analyze_trend returns "No data available for <field>" without calling
\* the model whenever the statistics or the time series is empty; otherwise
\* it calls the model once and passes it at most the first 20 points of the
\* series.
C27_TrendNeedsData ==
    answer # NoAnswer /\ answer.status # "ValueError" =>
        IF answer.hasStats /\ answer.series > 0
        THEN /\ answer.status = "returned"
             /\ answer.invoked = 1
             /\ Len(answer.passed) <= TrendPoints
             /\ Len(answer.passed) <= answer.series
             /\ \A i \in 1..Len(answer.passed) : answer.passed[i] = i
             /\ Len(answer.passed) = TrendPoints \/ Len(answer.passed) = answer.series
        ELSE /\ answer.status = "returned"
             /\ answer.at = "No data available for ..."
             /\ answer.invoked = 0

\* The snapshots a started stream of positive interval may have yielded: none
\* for a duration of 0 or less, and no more than ceil(duration / interval);
\* and the pauses it has made: one after every snapshot yielded, made when
\* the stream is resumed, and none before the first.
PacedWithinDuration ==
    /\ gen.duration <= 0 => gen.n = 0
    /\ gen.n > 0 => (gen.n - 1) * gen.interval < gen.duration
    /\ gen.pc = "suspended" => gen.pauses = gen.n - 1
    /\ gen.pc = "done" => gen.pauses = gen.n
    /\ gen.pc # "failed"

\* C28 as claimed.  For an interval > 0, pauses of at least the interval and
\* any delays of the consumer, a stream yields no snapshot when its duration
\* is 0 or less, at least one when it is positive and never more than
\* ceil(duration / interval); the first snapshot comes before any pause and
\* a pause follows every snapshot, the last included.
C28_AtLeastOneIfPositive ==
    (Started /\ gen.interval > 0) =>
        /\ PacedWithinDuration
        /\ gen.duration > 0 => gen.n >= 1

\* C28 as amended.  As claimed, but a stream of positive duration yields at
\* least one snapshot only if the clock has not advanced by the duration or
\* more between the computation of the deadline (line 101) and the first
\* test of the loop condition (line 103).
C28_AtLeastOneIfCheckedInTime ==
    (Started /\ gen.interval > 0) =>
        /\ PacedWithinDuration
        /\ (gen.duration > 0 /\ gen.n = 0) =>
              /\ gen.pc = "done"
              /\ gen.checked - gen.started >= gen.duration

\* A stream has been exhausted after ceil(3 / 2) = 2 snapshots and as many
\* pauses.
C28_Witness ==
    /\ gen.pc = "done"
    /\ gen.interval = 2
    /\ gen.duration = 3
    /\ gen.n = 2
    /\ gen.pauses = 2

\* The samples shown since the last chart refresh and those shown after an
\* earlier one, as far as both go.
ShownAlike ==
    \A i \in 1..Len(dash.shown) :
        i <= Len(dash.before) => dash.shown[i] = dash.before[i]

\* C29.  Every chart refresh seeds the random source with 73 and draws the
\* same 1000 values, so it leaves the source in one and the same state, and
\* the snapshots the metrics refreshes show after one chart refresh are,
\* time stamps aside, those shown after any other, one by one.
C29_SameAfterEveryChartRefresh ==
    /\ Cardinality(dash.after) <= 1
    /\ Cardinality(dash.charts) <= 1
    /\ dash.refreshes > 0 => ShownAlike

\* After a third chart refresh two different snapshots have been shown, as
\* after an earlier one, at a later time.
C29_Witness ==
    /\ dash.refreshes = 3
    /\ Len(dash.shown) = 2
    /\ Len(dash.before) >= 2
    /\ dash.shown[1] # dash.shown[2]
    /\ out.data.timestamp > 0

\* The menu has been shown.
MenuShown == console.pc = "menu"

\* The status of the connection the program keeps is not NOT_CONNECTED.
AdapterUp == console.pc # "none" /\ console.status # NOT_CONNECTED

\* Past the loop the last check has found a status other than NOT_CONNECTED;
\* the program keeps the connection it made at the start and makes no other;
\* every check that found NOT_CONNECTED is followed by a wait of 1 second
\* before the next.
ConsoleSafe ==
    console.pc # "none" =>
        /\ console.pc \in {"connected", "menu"} =>
              /\ console.observed \in Statuses \ {NOT_CONNECTED}
              /\ console.up
        /\ console.created = (IF console.port THEN 2 ELSE 1)
        /\ console.conn = console.created
        /\ console.pc = "check" => console.slept = console.checks * SleepSeconds
        /\ console.pc # "check" =>
              console.slept >= (console.checks - 1) * SleepSeconds

=============================================================================
